---- MODULE Spec2Model ----
(***************************************************************************)
(* Model of the workout engine of the Progression PWA                      *)
(* (src/js/planGenerator.js): the progression calculator                   *)
(* (calculateNextWorkoutProgression), the RIR curve (_getRirForWeek) and   *)
(* the mesocycle generator (generateNewMesocycle and its helpers), and     *)
(* the handlers that write to the day objects of the active plan; the      *)
(* intra-workout recommendation, the settings setters, the personal        *)
(* records of a session, the local-storage round trip                      *)
(* (src/js/googleSheetsService.js) and the sessions of several plans.      *)
(*                                                                         *)
(* Conventions for JavaScript values:                                      *)
(*   - the empty string '' of an unfilled set field is Empty (-1);         *)
(*   - null (an unset targetLoad) is Null (-2);                            *)
(*   - weights and the weight increment are counted in steps of 2.5        *)
(*     (the smallest increment of the settings), so 2.5, 5 and 10 are      *)
(*     1, 2 and 4;                                                         *)
(*   - an exercise name is a sequence of strings (characters or words),    *)
(*     each whitespace character being the element " ".                    *)
(***************************************************************************)
EXTENDS Integers, Sequences, FiniteSets, TLC

VARIABLES
    durationWeeks,  \* number of weeks of the plan
    currentWeek,    \* state.currentView.week: the week being trained
    completedDay,   \* exercises of weeks[currentWeek][day], the workout being logged
    nextDay,        \* exercises of weeks[currentWeek + 1][day], <<>> past the last week
    weightIncrement,\* state.settings.weightIncrement, in steps of 2.5
    pc,             \* "session" while logging, "advanced" after progression
    before,         \* the two days as they were when progression last ran
    logged          \* number of sets added so far

advVars == <<durationWeeks, currentWeek, completedDay, nextDay, weightIncrement, pc,
             before, logged>>

VARIABLES
    curveWeeks,     \* length of the mesocycle whose RIR curve is computed
    rirCurve        \* target RIR of weeks 1..Len(rirCurve), as computed so far

rirVars == <<curveWeeks, rirCurve>>

VARIABLES
    userSelections, \* state.userSelections: trainingAge, daysPerWeek, style
    allExercises,   \* state.exercises, the catalog handed to the generator
    planWeeks,      \* the durationWeeks argument of generateNewMesocycle
    mesocycle       \* the generated mesocycle, NoPlan before generation

genVars == <<userSelections, allExercises, planWeeks, mesocycle>>

VARIABLES
    activePlan,     \* activePlan.weeks: the address of the day object of each week and day
    heap,           \* the day objects, by address
    currentView,    \* state.currentView: week and day of the current workout
    dailyCheckin,   \* state.dailyCheckin: sleep and stress last submitted
    checkins,       \* length of state.dailyCheckinHistory
    wasAdjusted,    \* what adjustWorkoutForRecovery returned at the last check-in
    personalRecords,\* state.personalRecords
    newPRs,         \* state.workoutSummary.newPRs, what checkForPRs returned
    activePlanId,   \* state.activePlanId
    workoutHistory  \* state.workoutHistory

planVars == <<activePlan, heap, currentView, dailyCheckin, checkins, wasAdjusted,
              personalRecords, newPRs, activePlanId, workoutHistory>>

VARIABLES
    completedSet,   \* the logged set handed to generateIntraWorkoutRecommendation
    exerciseTarget, \* exercise.targetRIR of the exercise handed to it
    settingsStep,   \* state.settings.weightIncrement, in steps of 2.5
    recommendation  \* what generateIntraWorkoutRecommendation returned

recVars == <<completedSet, exerciseTarget, settingsStep, recommendation>>

VARIABLES
    settings,       \* state.settings: units, weightIncrement (in steps of
                    \* 2.5), restDuration, progressionModel
    restRemaining,  \* state.restTimer.remaining
    storedSettings, \* the settings last written to local storage
    saves,          \* how often the settings were written to local storage
    lastCall        \* the settings action dispatched last, with its argument

setVars == <<settings, restRemaining, storedSettings, saves, lastCall>>

VARIABLES
    checkedWorkout, \* the exercises of a session on its way to checkForPRs
    localStorage    \* the item saveToLocalStorage writes

VARIABLES
    sessionPlans,        \* state.allPlans by value, of the user who keeps
                         \* several plans: sessionPlans[id] is the plan with
                         \* that id
    isWorkoutInProgress, \* state.workoutTimer.isWorkoutInProgress
    currentViewName,     \* state.currentViewName
    checkinModal,        \* the daily check-in modal is shown
    adjustedDays         \* the day workouts adjustWorkoutForRecovery has been
                         \* called on, as <<plan id, week, day>>

sessVars == <<sessionPlans, isWorkoutInProgress, currentViewName, checkinModal,
              adjustedDays>>

VARIABLES
    plansCreated,   \* how many plans have been created: the ids handed out
    suggestions,    \* state.workoutSummary.suggestions
    workoutTimer,   \* state.workoutTimer: elapsed, isRunning, startTime
    now,            \* Date.now(), in half seconds
    handlerError    \* a handler has thrown a TypeError

appVars == <<plansCreated, suggestions, workoutTimer, now, handlerError>>

VARIABLES
    localItem,      \* the parsed item of local storage at start-up, NoItem
                    \* when there is none
    server,         \* how the Apps Script server and the user answer the
                    \* requests of this start-up
    localData,      \* const localData of initializeDataService
    spreadsheetId,  \* the spreadsheetId of googleSheetsService.js
    lastSyncTime,   \* state.lastSyncTime
    isDataLoaded,   \* state.isDataLoaded
    syncStep        \* how far initializeDataService has come

syncVars == <<localItem, server, localData, spreadsheetId, lastSyncTime,
              isDataLoaded, syncStep>>

\* the variables of the specifications further down
moreVars == <<recVars, setVars, checkedWorkout, localStorage, sessVars, appVars, syncVars>>

\* what the actions of one specification leave alone
exceptRec ==
    <<advVars, rirVars, genVars, planVars, setVars, checkedWorkout, localStorage,
      sessVars, appVars, syncVars>>
exceptSet ==
    <<advVars, rirVars, genVars, planVars, recVars, checkedWorkout, localStorage,
      sessVars, appVars, syncVars>>
exceptRecords ==
    <<advVars, rirVars, genVars, recVars, setVars, activePlan, heap, currentView,
      dailyCheckin, checkins, wasAdjusted, activePlanId, workoutHistory,
      localStorage, sessVars, appVars, syncVars>>
exceptSession ==
    <<advVars, rirVars, genVars, recVars, setVars, activePlan, heap, wasAdjusted,
      personalRecords, newPRs, checkedWorkout, localStorage, appVars, syncVars>>

vars == <<advVars, rirVars, genVars, planVars, moreVars>>

----------------------------------------------------------------------------
(* JavaScript value helpers *)

Empty == -1
Null == -2

\* JavaScript truthiness of a number-or-''-or-null value
Truthy(x) == x /= Empty /\ x /= Null /\ x /= 0

\* x || d
OrElse(x, d) == IF Truthy(x) THEN x ELSE d

----------------------------------------------------------------------------
(* Bounds and input domains *)

MaxSets == 2        \* sets added in one run
MaxWeeks == 16      \* longest mesocycle whose RIR curve is computed
MaxPlanWeeks == 4   \* longest mesocycle generated
RndLen == 3         \* length of the cycle of random draws in one generation
MaxLogged == 1      \* sets logged over a whole plan
MaxCheckins == 1    \* daily check-ins submitted over a whole plan

\* typed weights: blank (or unparsable, or 0) and 40, in steps of 2.5
WeightInputs == {Empty, 16}
\* tokens of a typed "reps [rir]" text: a number, the letter r, the word rir
Num(n) == [t |-> "num", v |-> n]
LetterR == [t |-> "r", v |-> 0]
WordRir == [t |-> "rir", v |-> 0]
\* typed texts: "", "8", "8 r0", "8 6rir"
RepRirInputs == {<<>>, <<Num(8)>>, <<Num(8), LetterR, Num(0)>>,
                 <<Num(8), Num(6), WordRir>>}
\* increments offered to setWeightIncrement: 2.5 and an unlisted 7.5
IncrementInputs == {1, 3}
\* plan length: 5 weeks, the shortest plan whose curve reaches RIR 0
PlanLengths == {5}
\* targetReps, targetLoad and stallCount of the next week's entries when the
\* run starts: as generated, or as left by earlier progression runs
NextProfiles == {[targetReps |-> 8, targetLoad |-> Null, stallCount |-> 0],
                 [targetReps |-> 12, targetLoad |-> 18, stallCount |-> 1]}


----------------------------------------------------------------------------
(* Exercise catalog used by the model: records shaped like exercises.json *)

NamePress == <<"p", "r", "e", "s", "s">>
NameInclinePress == <<"i", "n", "c", " ", "p", "r", "e", "s", "s">>
NameRow == <<"r", "o", "w">>
NameCableRow == <<"c", "a", "b", " ", " ", "r", "o", "w">>

ExPress == [name |-> NamePress, muscle |-> "chest", type |-> "Primary",
            equipment |-> {"barbell", "bench"},
            alternatives |-> <<NameInclinePress>>]
ExInclinePress == [name |-> NameInclinePress, muscle |-> "chest",
                   type |-> "Secondary", equipment |-> {"dumbbell", "bench"},
                   alternatives |-> <<>>]
ExRow == [name |-> NameRow, muscle |-> "back", type |-> "Primary",
          equipment |-> {"barbell"}, alternatives |-> <<>>]
ExCableRow == [name |-> NameCableRow, muscle |-> "back", type |-> "Secondary",
               equipment |-> {"cable"}, alternatives |-> <<>>]

Exercises == {ExPress, ExInclinePress, ExRow, ExCableRow}

----------------------------------------------------------------------------
(* exerciseId: `ex_${name.replace(/\s+/g, '_')}` *)

RECURSIVE DropSpaces(_)
DropSpaces(s) ==
    IF s /= <<>> /\ Head(s) = " " THEN DropSpaces(Tail(s)) ELSE s

\* every run of whitespace becomes one underscore
RECURSIVE ReplaceSpaces(_)
ReplaceSpaces(s) ==
    IF s = <<>> THEN <<>>
    ELSE IF Head(s) = " " THEN <<"_">> \o ReplaceSpaces(DropSpaces(Tail(s)))
    ELSE <<Head(s)>> \o ReplaceSpaces(Tail(s))

ExerciseIdOf(name) == <<"e", "x", "_">> \o ReplaceSpaces(name)

\* the plan entry created for a selected catalog exercise
NewEntry(ex) ==
    [exerciseId |-> ExerciseIdOf(ex.name), name |-> ex.name,
     muscle |-> ex.muscle, type |-> ex.type,
     targetSets |-> 3, targetReps |-> 8, targetRIR |-> 3,
     targetLoad |-> Null, sets |-> <<>>, stallCount |-> 0, note |-> <<>>]

----------------------------------------------------------------------------
(* RIR curve *)

\* progress = (week - 1) / (totalWeeks - 1) is compared with 1/4, 1/2 and 3/4
\* by cross-multiplication; totalWeeks = 1 implies week = totalWeeks here.
\* mutant: the final week is not singled out as the deload
GetRirWithoutDeload(week, totalWeeks) ==
    IF 4 * (week - 1) < (totalWeeks - 1) THEN 3
    ELSE IF 2 * (week - 1) < (totalWeeks - 1) THEN 2
    ELSE IF 4 * (week - 1) < 3 * (totalWeeks - 1) THEN 1
    ELSE 0

\* mutant: the quarter marks themselves stay in the lower quarter (<= for <)
GetRirInclusive(week, totalWeeks) ==
    IF week = totalWeeks THEN 4
    ELSE IF 4 * (week - 1) <= (totalWeeks - 1) THEN 3
    ELSE IF 2 * (week - 1) <= (totalWeeks - 1) THEN 2
    ELSE IF 4 * (week - 1) <= 3 * (totalWeeks - 1) THEN 1
    ELSE 0

GetRirForWeek(week, totalWeeks) ==
    IF week = totalWeeks THEN 4
    ELSE IF 4 * (week - 1) < (totalWeeks - 1) THEN 3
    ELSE IF 2 * (week - 1) < (totalWeeks - 1) THEN 2
    ELSE IF 4 * (week - 1) < 3 * (totalWeeks - 1) THEN 1
    ELSE 0

----------------------------------------------------------------------------
(* Progression calculator: calculateNextWorkoutProgression *)

\* completedEx.sets.reduce((max, set) =>
\*     ((set.weight || 0) > (max.weight || 0) ? set : max), { weight: 0 }).weight
RECURSIVE TopSetFrom(_, _)
TopSetFrom(sets, max) ==
    IF sets = <<>> THEN max
    ELSE TopSetFrom(Tail(sets),
                    IF OrElse(Head(sets).weight, 0) > OrElse(max, 0)
                    THEN Head(sets).weight ELSE max)

TopSetWeight(sets) == TopSetFrom(sets, 0)

\* sets.filter(s => s.rir !== null && s.rir !== '' && s.weight > 0)
HasRIR(s) == s.rir /= Null /\ s.rir /= Empty /\ s.weight > 0

SetsWithRIR(sets) == SelectSeq(sets, HasRIR)

RECURSIVE SumRIR(_)
SumRIR(sets) == IF sets = <<>> THEN 0 ELSE Head(sets).rir + SumRIR(Tail(sets))

\* mutant: one successful set is enough
SomeSetSuccessful(ex) ==
    \E k \in 1..Len(ex.sets) : OrElse(ex.sets[k].reps, 0) >= ex.targetReps

\* completedEx.sets.every(set => (set.reps || 0) >= completedEx.targetReps)
AllSetsSuccessful(ex) ==
    \A k \in 1..Len(ex.sets) : OrElse(ex.sets[k].reps, 0) >= ex.targetReps

\* completedEx.targetRIR || 3
TargetRIROf(ex) == OrElse(ex.targetRIR, 3)

\* averageRIR = sum / n is compared with targetRIR + 1 and targetRIR - 1 by
\* cross-multiplication (n > 0)
TooEasy(ex) ==
    LET rs == SetsWithRIR(ex.sets)
    IN  SumRIR(rs) > (TargetRIROf(ex) + 1) * Len(rs)

\* mutant: "too hard" only from more than two points below target
TooHardBeyondTwo(ex) ==
    LET rs == SetsWithRIR(ex.sets)
    IN  SumRIR(rs) < (TargetRIROf(ex) - 2) * Len(rs)

TooHard(ex) ==
    LET rs == SetsWithRIR(ex.sets)
    IN  SumRIR(rs) < (TargetRIROf(ex) - 1) * Len(rs)

\* mutant: the rep cap is tested with <= 12, so 12 reps become 13
ProgressExerciseCapInclusive(completedEx, nextWeekEx, inc) ==
    IF Len(completedEx.sets) = 0
    THEN [nextWeekEx EXCEPT !.targetLoad = OrElse(completedEx.targetLoad, Null),
                            !.targetReps = completedEx.targetReps]
    ELSE IF Len(SetsWithRIR(completedEx.sets)) = 0
    THEN [nextWeekEx EXCEPT
            !.targetLoad = IF AllSetsSuccessful(completedEx)
                           THEN OrElse(TopSetWeight(completedEx.sets), 0) + inc
                           ELSE TopSetWeight(completedEx.sets),
            !.targetReps = completedEx.targetReps]
    ELSE IF TooEasy(completedEx)
    THEN [nextWeekEx EXCEPT
            !.targetLoad = TopSetWeight(completedEx.sets) + inc,
            !.stallCount = 0]
    ELSE IF TooHard(completedEx)
    THEN [nextWeekEx EXCEPT
            !.targetLoad = TopSetWeight(completedEx.sets),
            !.stallCount = OrElse(nextWeekEx.stallCount, 0) + 1]
    ELSE IF nextWeekEx.targetReps <= 12
    THEN [nextWeekEx EXCEPT
            !.targetReps = OrElse(nextWeekEx.targetReps, 8) + 1,
            !.targetLoad = TopSetWeight(completedEx.sets),
            !.stallCount = 0]
    ELSE [nextWeekEx EXCEPT
            !.targetLoad = TopSetWeight(completedEx.sets) + inc,
            !.targetReps = 8,
            !.stallCount = 0]

\* the body of the forEach callback for a completed entry and its match
ProgressExercise(completedEx, nextWeekEx, inc) ==
    IF Len(completedEx.sets) = 0
    THEN [nextWeekEx EXCEPT !.targetLoad = OrElse(completedEx.targetLoad, Null),
                            !.targetReps = completedEx.targetReps]
    ELSE IF Len(SetsWithRIR(completedEx.sets)) = 0
    THEN [nextWeekEx EXCEPT
            !.targetLoad = IF AllSetsSuccessful(completedEx)
                           THEN OrElse(TopSetWeight(completedEx.sets), 0) + inc
                           ELSE TopSetWeight(completedEx.sets),
            !.targetReps = completedEx.targetReps]
    ELSE IF TooEasy(completedEx)
    THEN [nextWeekEx EXCEPT
            !.targetLoad = TopSetWeight(completedEx.sets) + inc,
            !.stallCount = 0]
    ELSE IF TooHard(completedEx)
    THEN [nextWeekEx EXCEPT
            !.targetLoad = TopSetWeight(completedEx.sets),
            !.stallCount = OrElse(nextWeekEx.stallCount, 0) + 1]
    ELSE IF nextWeekEx.targetReps < 12
    THEN [nextWeekEx EXCEPT
            !.targetReps = OrElse(nextWeekEx.targetReps, 8) + 1,
            !.targetLoad = TopSetWeight(completedEx.sets),
            !.stallCount = 0]
    ELSE [nextWeekEx EXCEPT
            !.targetLoad = TopSetWeight(completedEx.sets) + inc,
            !.targetReps = 8,
            !.stallCount = 0]

\* nextWorkout.exercises.find(ex => ex.exerciseId === id): index of the first
\* entry with that id, 0 when there is none
FindExercise(exercises, id) ==
    IF \E j \in 1..Len(exercises) : exercises[j].exerciseId = id
    THEN CHOOSE j \in 1..Len(exercises) :
            /\ exercises[j].exerciseId = id
            /\ \A k \in 1..(j - 1) : exercises[k].exerciseId /= id
    ELSE 0

\* mutant: the loop stops at the first completed entry without a match
RECURSIVE ProgressUntilMissing(_, _, _, _)
ProgressUntilMissing(i, completed, next, inc) ==
    IF i > Len(completed) THEN next
    ELSE LET j == FindExercise(next, completed[i].exerciseId)
         IN  IF j = 0 THEN next
             ELSE ProgressUntilMissing(i + 1, completed,
                    [next EXCEPT ![j] = ProgressExercise(completed[i], next[j], inc)],
                    inc)

\* completedWorkout.exercises.forEach(...), from the i-th completed entry on
RECURSIVE ProgressFrom(_, _, _, _)
ProgressFrom(i, completed, next, inc) ==
    IF i > Len(completed) THEN next
    ELSE LET j == FindExercise(next, completed[i].exerciseId)
         IN  IF j = 0 THEN ProgressFrom(i + 1, completed, next, inc)
             ELSE ProgressFrom(i + 1, completed,
                    [next EXCEPT ![j] = ProgressExercise(completed[i], next[j], inc)],
                    inc)

\* the exercises of nextWorkout after calculateNextWorkoutProgression
CalculateNextWorkoutProgression(completed, next, inc) ==
    ProgressFrom(1, completed, next, inc)

----------------------------------------------------------------------------
(* One week of _createFullMesocycle *)

\* Math.ceil(n / 2)
\* mutant: the deload halves and rounds down
FloorHalf(n) == n \div 2

CeilHalf(n) == (n + 1) \div 2

\* the exercises of week i of the mesocycle, copied from the day template
WeekExercises(dayExercises, i, total) ==
    [k \in 1..Len(dayExercises) |->
        [dayExercises[k] EXCEPT
            !.targetRIR = GetRirForWeek(i, total),
            !.targetSets = IF i = total THEN CeilHalf(@) ELSE @]]

----------------------------------------------------------------------------
(* Session handlers on the current workout *)

\* the day template of the progression runs: one chest and one back exercise
SessionTemplate == <<NewEntry(ExPress), NewEntry(ExRow)>>

\* a "reps [rir]" text: value.match(/^(\d+)/)
ParseReps(text) ==
    IF Len(text) > 0 /\ Head(text).t = "num" THEN Head(text).v ELSE Empty

\* does pattern <<a, b>> (two token kinds) match at position k
MatchAt(text, k, a, b) ==
    k < Len(text) /\ text[k].t = a /\ text[k + 1].t = b

FirstMatch(text, a, b) ==
    IF \E k \in 1..Len(text) : MatchAt(text, k, a, b)
    THEN CHOOSE k \in 1..Len(text) :
            /\ MatchAt(text, k, a, b)
            /\ \A m \in 1..(k - 1) : ~MatchAt(text, m, a, b)
    ELSE 0

\* value.match(/r(\d+)/) || value.match(/(\d+)\s*rir/)
ParseRir(text) ==
    IF FirstMatch(text, "r", "num") > 0
    THEN text[FirstMatch(text, "r", "num") + 1].v
    ELSE IF FirstMatch(text, "num", "rir") > 0
    THEN text[FirstMatch(text, "num", "rir")].v
    ELSE Empty

\* values of the variables a specification does not use
NoPlan == [weeks |-> <<>>]
NoCheckin == [sleep |-> 8, stress |-> 3]
NoSet == [weight |-> Empty, reps |-> Empty, rir |-> Empty]
RecIdle ==
    /\ completedSet = NoSet
    /\ exerciseTarget = 3
    /\ settingsStep = 2
    /\ recommendation = [kind |-> "idle", weight |-> Null]
DefaultSettings ==
    [units |-> "lbs", progressionModel |-> "double", weightIncrement |-> 2,
     restDuration |-> 90]
NoCall == [action |-> "none", value |-> Null]
SetIdle ==
    /\ settings = DefaultSettings
    /\ restRemaining = 0
    /\ storedSettings = Null
    /\ saves = 0
    /\ lastCall = NoCall
NoItem == [t |-> "none"]
SessIdle ==
    /\ sessionPlans = <<>>
    /\ isWorkoutInProgress = FALSE
    /\ currentViewName = "home"
    /\ checkinModal = FALSE
    /\ adjustedDays = {}
StoppedTimer == [elapsed |-> 0, isRunning |-> FALSE, startTime |-> 0]
AppIdle ==
    /\ plansCreated = 0
    /\ suggestions = <<>>
    /\ workoutTimer = StoppedTimer
    /\ now = 0
    /\ handlerError = FALSE
SyncIdle ==
    /\ localItem = NoItem
    /\ server = NoItem
    /\ localData = NoItem
    /\ spreadsheetId = Null
    /\ lastSyncTime = Null
    /\ isDataLoaded = FALSE
    /\ syncStep = "idle"
MoreIdle ==
    /\ RecIdle
    /\ SetIdle
    /\ SessIdle
    /\ AppIdle
    /\ SyncIdle
    /\ checkedWorkout = <<>>
    /\ localStorage = NoItem
PlanIdle ==
    /\ activePlan = <<>>
    /\ heap = <<>>
    /\ currentView = [week |-> 1, day |-> 1]
    /\ dailyCheckin = NoCheckin
    /\ checkins = 0
    /\ wasAdjusted = FALSE
    /\ personalRecords = <<>>
    /\ newPRs = 0
    /\ activePlanId = Null
    /\ workoutHistory = <<>>
RirIdle == curveWeeks = 0 /\ rirCurve = <<>>
GenIdle ==
    /\ userSelections = [trainingAge |-> "beginner", daysPerWeek |-> 4,
                         style |-> "gym"]
    /\ allExercises = <<>>
    /\ planWeeks = 0
    /\ mesocycle = NoPlan
AdvIdle ==
    /\ durationWeeks = 0 /\ currentWeek = 0
    /\ completedDay = <<>> /\ nextDay = <<>>
    /\ weightIncrement = 2
    /\ pc = "idle"
    /\ before = [completed |-> <<>>, next |-> <<>>, increment |-> 0]
    /\ logged = 0

\* the catalog record with a given name, state.exercises.find(e => e.name === n)
HasExercise(n) == \E e \in Exercises : e.name = n
ExerciseNamed(n) == CHOOSE e \in Exercises : e.name = n

NoSnapshot == [completed |-> <<>>, next |-> <<>>, increment |-> 0]

\* addSet: push { weight: lastWeight, reps: '', rir: '' }
AddSet(exerciseIndex) ==
    /\ pc = "session"
    /\ exerciseIndex \in 1..Len(completedDay)
    /\ logged < MaxSets
    /\ LET exercise == completedDay[exerciseIndex]
           lastWeight == IF Len(exercise.sets) > 0
                         THEN exercise.sets[Len(exercise.sets)].weight
                         ELSE OrElse(exercise.targetLoad, Empty)
       IN  completedDay' = [completedDay EXCEPT ![exerciseIndex].sets =
                Append(@, [weight |-> lastWeight, reps |-> Empty, rir |-> Empty])]
    /\ logged' = logged + 1
    /\ UNCHANGED <<durationWeeks, currentWeek, nextDay, weightIncrement, pc, before,
                   rirVars, genVars, planVars, moreVars>>

\* input on a weight field: set.weight = parseFloat(value) || ''
InputWeight(exerciseIndex, setIndex, value) ==
    /\ pc = "session"
    /\ exerciseIndex \in 1..Len(completedDay)
    /\ setIndex \in 1..Len(completedDay[exerciseIndex].sets)
    /\ completedDay' = [completedDay EXCEPT
            ![exerciseIndex].sets[setIndex].weight = OrElse(value, Empty)]
    /\ UNCHANGED <<durationWeeks, currentWeek, nextDay, weightIncrement, pc, before,
                   logged, rirVars, genVars, planVars, moreVars>>

\* input on a reps/RIR field: reps and rir are parsed from the typed text
InputRepRir(exerciseIndex, setIndex, text) ==
    /\ pc = "session"
    /\ exerciseIndex \in 1..Len(completedDay)
    /\ setIndex \in 1..Len(completedDay[exerciseIndex].sets)
    /\ completedDay' = [completedDay EXCEPT
            ![exerciseIndex].sets[setIndex].reps = ParseReps(text),
            ![exerciseIndex].sets[setIndex].rir = ParseRir(text)]
    /\ UNCHANGED <<durationWeeks, currentWeek, nextDay, weightIncrement, pc, before,
                   logged, rirVars, genVars, planVars, moreVars>>

\* selectAlternative: the entry takes the name, muscle and id of the alternative
SelectAlternative(exerciseIndex, newExerciseName) ==
    /\ pc = "session"
    /\ exerciseIndex \in 1..Len(completedDay)
    /\ LET currentExercise == completedDay[exerciseIndex]
       IN  /\ HasExercise(currentExercise.name)
           /\ \E a \in 1..Len(ExerciseNamed(currentExercise.name).alternatives) :
                ExerciseNamed(currentExercise.name).alternatives[a] = newExerciseName
           /\ HasExercise(newExerciseName)
           /\ completedDay' = [completedDay EXCEPT ![exerciseIndex] =
                [currentExercise EXCEPT
                    !.name = ExerciseNamed(newExerciseName).name,
                    !.muscle = ExerciseNamed(newExerciseName).muscle,
                    !.exerciseId = ExerciseIdOf(ExerciseNamed(newExerciseName).name),
                    !.sets = <<>>,
                    !.stallCount = 0,
                    !.note = currentExercise.name]]
    /\ UNCHANGED <<durationWeeks, currentWeek, nextDay, weightIncrement, pc, before,
                   logged, rirVars, genVars, planVars, moreVars>>

\* setWeightIncrement: ignored unless the increment is 2.5, 5 or 10
SetWeightIncrement(increment) ==
    /\ weightIncrement' = IF increment \in {1, 2, 4} THEN increment
                          ELSE weightIncrement
    /\ UNCHANGED <<durationWeeks, currentWeek, completedDay, nextDay, pc, before,
                   logged, rirVars, genVars, planVars, moreVars>>

\* calculateNextWorkoutProgression(completedDay, nextDay)
Advance ==
    /\ pc = "session"
    /\ currentWeek < durationWeeks
    /\ before' = [completed |-> completedDay, next |-> nextDay,
                  increment |-> weightIncrement]
    /\ nextDay' = CalculateNextWorkoutProgression(completedDay, nextDay,
                                                   weightIncrement)
    /\ pc' = "advanced"
    /\ UNCHANGED <<durationWeeks, currentWeek, completedDay, weightIncrement, logged,
                   rirVars, genVars, planVars, moreVars>>

\* the session moves on to the same day slot of the following week
NextWeek ==
    /\ pc = "advanced"
    /\ currentWeek < durationWeeks
    /\ currentWeek' = currentWeek + 1
    /\ completedDay' = nextDay
    /\ nextDay' = IF currentWeek + 2 <= durationWeeks
                  THEN WeekExercises(SessionTemplate, currentWeek + 2, durationWeeks)
                  ELSE <<>>
    /\ pc' = "session"
    /\ before' = NoSnapshot
    /\ UNCHANGED <<durationWeeks, weightIncrement, logged, rirVars, genVars, planVars, moreVars>>

WithProfile(exercises, profile) ==
    [k \in 1..Len(exercises) |->
        [exercises[k] EXCEPT !.targetReps = profile.targetReps,
                             !.targetLoad = profile.targetLoad,
                             !.stallCount = profile.stallCount]]

InitAdvance ==
    /\ durationWeeks \in PlanLengths
    /\ currentWeek \in 1..(durationWeeks - 1)
    /\ completedDay = WeekExercises(SessionTemplate, currentWeek, durationWeeks)
    /\ \E profile \in NextProfiles :
            nextDay = WithProfile(
                WeekExercises(SessionTemplate, currentWeek + 1, durationWeeks),
                profile)
    /\ weightIncrement = 2
    /\ pc = "session"
    /\ before = NoSnapshot
    /\ logged = 0
    /\ RirIdle
    /\ GenIdle
    /\ PlanIdle
    /\ MoreIdle

NextAdvance ==
    \/ \E i \in 1..2 : AddSet(i)
    \/ \E i \in 1..2, k \in 1..(MaxSets + 1), v \in WeightInputs : InputWeight(i, k, v)
    \/ \E i \in 1..2, k \in 1..(MaxSets + 1), t \in RepRirInputs : InputRepRir(i, k, t)
    \/ \E i \in 1..2, n \in {e.name : e \in Exercises} : SelectAlternative(i, n)
    \/ \E v \in IncrementInputs : SetWeightIncrement(v)
    \/ Advance
    \/ NextWeek

SpecAdvance == InitAdvance /\ [][NextAdvance]_vars

----------------------------------------------------------------------------
(* Properties of the progression calculator, read off the state after a run: *)
(* `before` holds both days as they were, nextDay the result.                *)

\* the recorded RIRs of an entry: sets with a weight above 0 and an RIR
Recorded(ex) ==
    {k \in 1..Len(ex.sets) : ex.sets[k].weight > 0 /\ ex.sets[k].rir /= Empty}

RirTotal(ex) ==
    LET RECURSIVE Total(_)
        Total(k) == IF k = 0 THEN 0
                    ELSE (IF k \in Recorded(ex) THEN ex.sets[k].rir ELSE 0)
                         + Total(k - 1)
    IN  Total(Len(ex.sets))

\* mean - target, times the number of recorded RIRs
RirExcess(ex, target) == RirTotal(ex) - target * Cardinality(Recorded(ex))

\* |mean - target| <= 1
MeanOnTarget(ex, target) ==
    /\ Recorded(ex) /= {}
    /\ RirExcess(ex, target) <= Cardinality(Recorded(ex))
    /\ RirExcess(ex, target) >= -Cardinality(Recorded(ex))

\* the highest logged weight of an entry, 0 when no set has a weight
HighestWeight(ex) ==
    LET ws == {ex.sets[k].weight : k \in 1..Len(ex.sets)} \cup {0}
    IN  CHOOSE w \in ws : \A v \in ws : v <= w

\* completed entry i and next-day entry j are paired by exerciseId
Paired(i, j) ==
    /\ i \in 1..Len(before.completed)
    /\ j \in 1..Len(before.next)
    /\ before.completed[i].exerciseId = before.next[j].exerciseId

EntryPairs == (1..Len(before.completed)) \X (1..Len(before.next))

\* C1 (as claimed): a paired exercise on target (|mean - targetRIR| <= 1, any
\* targetRIR in 0..4) with targetReps < 12 gets targetReps + 1, keeps the
\* targetLoad it had before the call, and has stallCount 0.
C1_OnTargetAddsRep ==
    pc = "advanced" =>
        \A p \in EntryPairs : Paired(p[1], p[2]) =>
            LET c == before.completed[p[1]]
                n0 == before.next[p[2]]
                n1 == nextDay[p[2]]
            IN  (/\ c.targetRIR \in 0..4
                 /\ MeanOnTarget(c, c.targetRIR)
                 /\ n0.targetReps < 12)
                => /\ n1.targetReps = n0.targetReps + 1
                   /\ n1.targetLoad = n0.targetLoad
                   /\ n1.stallCount = 0

\* C2 (as claimed): a paired exercise whose mean RIR is two points below its
\* targetRIR gets stallCount + 1 and keeps the targetLoad it had before the call.
C2_TooHardKeepsPreviousLoad ==
    pc = "advanced" =>
        \A p \in EntryPairs : Paired(p[1], p[2]) =>
            LET c == before.completed[p[1]]
                n0 == before.next[p[2]]
                n1 == nextDay[p[2]]
            IN  (Recorded(c) /= {} /\ RirExcess(c, c.targetRIR) = -2 * Cardinality(Recorded(c)))
                => /\ n1.stallCount = n0.stallCount + 1
                   /\ n1.targetLoad = n0.targetLoad

\* C2 (amended): a paired exercise whose mean RIR is two points below its
\* targetRIR gets stallCount + 1, and its targetLoad becomes the highest logged
\* weight of the completed exercise, with no increment added.
C2_TooHardStalls ==
    pc = "advanced" =>
        \A p \in EntryPairs : Paired(p[1], p[2]) =>
            LET c == before.completed[p[1]]
                n0 == before.next[p[2]]
                n1 == nextDay[p[2]]
            IN  (Recorded(c) /= {} /\ RirExcess(c, c.targetRIR) = -2 * Cardinality(Recorded(c)))
                => /\ n1.stallCount = n0.stallCount + 1
                   /\ n1.targetLoad = HighestWeight(c)

\* a run in which an exercise already stalled once came out two below target
C2_Witness ==
    /\ pc = "advanced"
    /\ \E p \in EntryPairs :
        /\ Paired(p[1], p[2])
        /\ Recorded(before.completed[p[1]]) /= {}
        /\ RirExcess(before.completed[p[1]], before.completed[p[1]].targetRIR)
                = -2 * Cardinality(Recorded(before.completed[p[1]]))
        /\ before.next[p[2]].stallCount = 1
        /\ before.next[p[2]].targetLoad /= HighestWeight(before.completed[p[1]])
        /\ nextDay[p[2]].stallCount = 2

\* C3 (as claimed): a paired exercise that was too easy (mean - targetRIR > 1,
\* any targetRIR in 0..4) gets the highest logged weight plus the increment as
\* targetLoad and stallCount 0, and keeps its targetReps.
C3_TooEasyAddsLoad ==
    pc = "advanced" =>
        \A p \in EntryPairs : Paired(p[1], p[2]) =>
            LET c == before.completed[p[1]]
                n0 == before.next[p[2]]
                n1 == nextDay[p[2]]
            IN  (/\ c.targetRIR \in 0..4
                 /\ Recorded(c) /= {}
                 /\ RirExcess(c, c.targetRIR) > Cardinality(Recorded(c)))
                => /\ n1.targetLoad = HighestWeight(c) + before.increment
                   /\ n1.stallCount = 0
                   /\ n1.targetReps = n0.targetReps

\* C4 (as claimed): a paired exercise on target whose targetReps is 12 or more
\* gets targetReps 8, a targetLoad one increment above the weight lifted, and
\* stallCount 0.
C4_OnTargetAtRepCap ==
    pc = "advanced" =>
        \A p \in EntryPairs : Paired(p[1], p[2]) =>
            LET c == before.completed[p[1]]
                n0 == before.next[p[2]]
                n1 == nextDay[p[2]]
            IN  (MeanOnTarget(c, c.targetRIR) /\ n0.targetReps >= 12)
                => /\ n1.targetReps = 8
                   /\ n1.targetLoad = HighestWeight(c) + before.increment
                   /\ n1.stallCount = 0

\* sets were logged and none of them has an RIR
NoRirLogged(ex) ==
    /\ Len(ex.sets) > 0
    /\ \A k \in 1..Len(ex.sets) : ex.sets[k].rir = Empty

\* every logged set reached the entry's targetReps
RepsMet(ex) ==
    \A k \in 1..Len(ex.sets) :
        ex.sets[k].reps /= Empty /\ ex.sets[k].reps >= ex.targetReps

\* a load, null counting as 0
LoadValue(x) == IF x = Null THEN 0 ELSE x

\* C5 (as claimed): with sets logged and no RIR recorded, the targetLoad
\* (the next entry's, or the completed entry's) is increased by the increment
\* when every set reached targetReps and is held otherwise; stallCount is not
\* changed.
C5_NoRirIncreasesTargetLoad ==
    pc = "advanced" =>
        \A p \in EntryPairs : Paired(p[1], p[2]) =>
            LET c == before.completed[p[1]]
                n0 == before.next[p[2]]
                n1 == nextDay[p[2]]
            IN  NoRirLogged(c)
                => /\ n1.stallCount = n0.stallCount
                   /\ IF RepsMet(c)
                      THEN n1.targetLoad \in
                            {LoadValue(n0.targetLoad) + before.increment,
                             LoadValue(c.targetLoad) + before.increment}
                      ELSE n1.targetLoad \in {n0.targetLoad, c.targetLoad}

\* C5 (amended): with sets logged and no RIR recorded, the next entry's
\* targetLoad becomes the highest logged weight (0 when no set has a weight)
\* plus the increment when every set reached the completed entry's targetReps,
\* and the highest logged weight alone otherwise; stallCount is not changed.
C5_NoRirFallback ==
    pc = "advanced" =>
        \A p \in EntryPairs : Paired(p[1], p[2]) =>
            LET c == before.completed[p[1]]
                n0 == before.next[p[2]]
                n1 == nextDay[p[2]]
            IN  NoRirLogged(c)
                => /\ n1.stallCount = n0.stallCount
                   /\ n1.targetLoad = IF RepsMet(c)
                                      THEN HighestWeight(c) + before.increment
                                      ELSE HighestWeight(c)

\* a run over an exercise with two sets and no RIR, one of them short of
\* targetReps, whose weight differs from the load targeted before
C5_Witness ==
    /\ pc = "advanced"
    /\ \E p \in EntryPairs :
        /\ Paired(p[1], p[2])
        /\ NoRirLogged(before.completed[p[1]])
        /\ Len(before.completed[p[1]].sets) = 2
        /\ ~RepsMet(before.completed[p[1]])
        /\ \E k \in 1..2 : before.completed[p[1]].sets[k].reps
                                >= before.completed[p[1]].targetReps
        /\ HighestWeight(before.completed[p[1]]) > 0
        /\ before.next[p[2]].targetLoad /= HighestWeight(before.completed[p[1]])
        /\ nextDay[p[2]].targetLoad = HighestWeight(before.completed[p[1]])

\* C6 (as claimed): a paired exercise with no logged sets passes its targetLoad
\* and targetReps on to the next entry, whose stallCount is unchanged.
C6_SkippedCarriesForward ==
    pc = "advanced" =>
        \A p \in EntryPairs : Paired(p[1], p[2]) =>
            LET c == before.completed[p[1]]
                n0 == before.next[p[2]]
                n1 == nextDay[p[2]]
            IN  Len(c.sets) = 0
                => /\ n1.targetLoad = c.targetLoad
                   /\ n1.targetReps = c.targetReps
                   /\ n1.stallCount = n0.stallCount

\* the fields progression never writes
FrameOf(ex) ==
    [exerciseId |-> ex.exerciseId, name |-> ex.name, muscle |-> ex.muscle,
     type |-> ex.type, targetSets |-> ex.targetSets, targetRIR |-> ex.targetRIR,
     sets |-> ex.sets, note |-> ex.note]

\* C7: progression leaves completedDay alone, keeps the number and order of
\* the next-day entries and every field of theirs other than targetLoad,
\* targetReps and stallCount, leaves next-day entries without a match
\* untouched, and processes every matched completed entry, also those that
\* come after a completed entry without a match (a processed entry with logged
\* sets has the highest logged weight, with or without the increment, as
\* targetLoad).
C7_ProgressionFrame ==
    pc = "advanced" =>
        /\ completedDay = before.completed
        /\ Len(nextDay) = Len(before.next)
        /\ \A j \in 1..Len(before.next) :
            /\ FrameOf(nextDay[j]) = FrameOf(before.next[j])
            /\ (\A i \in 1..Len(before.completed) : ~Paired(i, j))
                    => nextDay[j] = before.next[j]
        /\ \A p \in EntryPairs :
            (Paired(p[1], p[2]) /\ Len(before.completed[p[1]].sets) > 0)
                => nextDay[p[2]].targetLoad \in
                        {HighestWeight(before.completed[p[1]]),
                         HighestWeight(before.completed[p[1]]) + before.increment}

\* a run where the first completed entry was swapped out (no match), the
\* second was logged and progressed, and the first next-day entry, already
\* stalled once, stayed as it was
C7_Witness ==
    /\ pc = "advanced"
    /\ Len(before.completed) = 2
    /\ \A j \in 1..Len(before.next) : ~Paired(1, j)
    /\ Paired(2, 2)
    /\ Len(before.completed[2].sets) > 0
    /\ nextDay[2] /= before.next[2]
    /\ before.next[1].stallCount = 1
    /\ nextDay[1] = before.next[1]

----------------------------------------------------------------------------
(* The RIR curve, week by week, as the loop of _createFullMesocycle calls it *)

InitRir ==
    /\ curveWeeks \in 1..MaxWeeks
    /\ rirCurve = <<>>
    /\ AdvIdle
    /\ GenIdle
    /\ PlanIdle
    /\ MoreIdle

ComputeRir ==
    /\ Len(rirCurve) < curveWeeks
    /\ rirCurve' = Append(rirCurve, GetRirForWeek(Len(rirCurve) + 1, curveWeeks))
    /\ UNCHANGED <<curveWeeks, advVars, genVars, planVars, moreVars>>

NextRir == ComputeRir

SpecRir == InitRir /\ [][NextRir]_vars

\* C8: for a mesocycle of 2 or more weeks the final week has target RIR 4,
\* and over the non-final weeks the target RIR stays within 0..3 and never
\* increases from an earlier week to a later one.
C8_RirCurveShape ==
    curveWeeks >= 2 =>
        /\ Len(rirCurve) = curveWeeks => rirCurve[curveWeeks] = 4
        /\ \A w \in 1..Len(rirCurve) : w < curveWeeks =>
            /\ rirCurve[w] \in 0..3
            /\ \A v \in 1..(w - 1) : rirCurve[w] <= rirCurve[v]

\* a complete curve that starts at 3, reaches 0 before the deload and ends at 4
C8_Witness ==
    /\ curveWeeks >= 5
    /\ Len(rirCurve) = curveWeeks
    /\ rirCurve[1] = 3
    /\ rirCurve[curveWeeks - 1] = 0
    /\ rirCurve[curveWeeks] = 4

\* C9 (as claimed): over the non-final weeks the target RIR strictly decreases
\* from each week to every later one.
C9_RirStrictlyDecreases ==
    \A w \in 1..Len(rirCurve) : \A v \in 1..(w - 1) :
        w < curveWeeks => rirCurve[w] < rirCurve[v]

\* C9 (amended): over the non-final weeks the target RIR never increases, and
\* it is strictly lower in the later of two weeks that lie at least a quarter
\* of the progression apart (4 * (w - v) >= totalWeeks - 1), which covers every
\* pair of non-final weeks when totalWeeks <= 5.
C9_RirDecreasesByQuarters ==
    \A w \in 1..Len(rirCurve) : \A v \in 1..(w - 1) :
        w < curveWeeks =>
            /\ rirCurve[w] <= rirCurve[v]
            /\ 4 * (w - v) >= curveWeeks - 1 => rirCurve[w] < rirCurve[v]

\* a curve with two neighbouring non-final weeks at the same RIR and two
\* weeks a quarter apart at different RIRs
C9_Witness ==
    /\ Len(rirCurve) = curveWeeks
    /\ \E w \in 2..(curveWeeks - 1) : rirCurve[w] = rirCurve[w - 1]
    /\ \E w \in 2..(curveWeeks - 1) : \E v \in 1..(w - 1) :
        4 * (w - v) >= curveWeeks - 1 /\ rirCurve[w] < rirCurve[v]

----------------------------------------------------------------------------
(* Mesocycle generator: generateNewMesocycle and its helpers *)

VolumeLandmarks(trainingAge) ==
    CASE trainingAge = "novice" -> [mv |-> 4, mev |-> 6, mav |-> 10, mrv |-> 12]
      [] trainingAge = "beginner" -> [mv |-> 6, mev |-> 8, mav |-> 12, mrv |-> 15]
      [] trainingAge = "intermediate" -> [mv |-> 8, mev |-> 10, mav |-> 16, mrv |-> 20]
      [] trainingAge = "advanced" -> [mv |-> 10, mev |-> 12, mav |-> 18, mrv |-> 22]
      [] OTHER -> [mv |-> 6, mev |-> 8, mav |-> 12, mrv |-> 15]

AllMuscles == <<"chest", "back", "quads", "hamstrings", "shoulders", "biceps",
                "triceps", "core">>

Day(label, muscles) == [label |-> label, muscles |-> muscles]

\* mutant: four days a week also train the full body split
GetSplitFullBodyUpToFour(days) ==
    IF days <= 4
    THEN [name |-> "Full Body",
          days |-> <<Day("Full Body A", <<"quads", "chest", "back", "shoulders">>),
                     Day("Full Body B", <<"hamstrings", "back", "chest", "biceps",
                                          "triceps">>),
                     Day("Full Body C", <<"quads", "shoulders", "back", "core">>)>>,
          muscles |-> AllMuscles]
    ELSE [name |-> "Push/Pull/Legs",
          days |-> <<Day("Push", <<"chest", "shoulders", "triceps">>),
                     Day("Pull", <<"back", "biceps">>),
                     Day("Legs", <<"quads", "hamstrings", "core">>)>>,
          muscles |-> AllMuscles]

\* mutant: Push/Pull/Legs only from six days a week, five days get Upper/Lower
GetSplitUpperLowerUpToFive(days) ==
    IF days <= 3
    THEN [name |-> "Full Body",
          days |-> <<Day("Full Body A", <<"quads", "chest", "back", "shoulders">>),
                     Day("Full Body B", <<"hamstrings", "back", "chest", "biceps",
                                          "triceps">>),
                     Day("Full Body C", <<"quads", "shoulders", "back", "core">>)>>,
          muscles |-> AllMuscles]
    ELSE IF days <= 5
    THEN [name |-> "Upper/Lower",
          days |-> <<Day("Upper A", <<"chest", "back", "shoulders", "biceps",
                                      "triceps">>),
                     Day("Lower A", <<"quads", "hamstrings", "core">>),
                     Day("Upper B", <<"back", "chest", "shoulders", "triceps",
                                      "biceps">>),
                     Day("Lower B", <<"hamstrings", "quads", "core">>)>>,
          muscles |-> AllMuscles]
    ELSE [name |-> "Push/Pull/Legs",
          days |-> <<Day("Push", <<"chest", "shoulders", "triceps">>),
                     Day("Pull", <<"back", "biceps">>),
                     Day("Legs", <<"quads", "hamstrings", "core">>)>>,
          muscles |-> AllMuscles]

\* split.days is an object; its keys are visited in insertion order
GetSplitForDays(days) ==
    IF days <= 3
    THEN [name |-> "Full Body",
          days |-> <<Day("Full Body A", <<"quads", "chest", "back", "shoulders">>),
                     Day("Full Body B", <<"hamstrings", "back", "chest", "biceps",
                                          "triceps">>),
                     Day("Full Body C", <<"quads", "shoulders", "back", "core">>)>>,
          muscles |-> AllMuscles]
    ELSE IF days = 4
    THEN [name |-> "Upper/Lower",
          days |-> <<Day("Upper A", <<"chest", "back", "shoulders", "biceps",
                                      "triceps">>),
                     Day("Lower A", <<"quads", "hamstrings", "core">>),
                     Day("Upper B", <<"back", "chest", "shoulders", "triceps",
                                      "biceps">>),
                     Day("Lower B", <<"hamstrings", "quads", "core">>)>>,
          muscles |-> AllMuscles]
    ELSE [name |-> "Push/Pull/Legs",
          days |-> <<Day("Push", <<"chest", "shoulders", "triceps">>),
                     Day("Pull", <<"back", "biceps">>),
                     Day("Legs", <<"quads", "hamstrings", "core">>)>>,
          muscles |-> AllMuscles]

\* mutant: three quarters of the target rounded down
FloorThreeQuarters(targetVolume) == (3 * targetVolume) \div 4

\* Math.round(targetVolume * 0.75), halves rounded up
RoundThreeQuarters(targetVolume) == (3 * targetVolume + 2) \div 4

CalculateInitialWeeklyVolume(musclesInSplit, targetVolume) ==
    [muscle \in {musclesInSplit[k] : k \in 1..Len(musclesInSplit)} |->
        IF muscle \in {"biceps", "triceps", "core"} /\ Truthy(targetVolume)
        THEN RoundThreeQuarters(targetVolume)
        ELSE targetVolume]

\* mutant: every style gets the gym equipment
GetEquipmentFilterGymOnly(style) ==
    {"barbell", "dumbbell", "machine", "cable", "rack", "bench", "bodyweight",
     "pullup-bar"}

GetEquipmentFilter(style) ==
    IF style = "gym"
    THEN {"barbell", "dumbbell", "machine", "cable", "rack", "bench", "bodyweight",
          "pullup-bar"}
    ELSE IF style = "home" THEN {"bodyweight", "dumbbell", "pullup-bar"}
    ELSE {"barbell", "dumbbell", "machine", "cable", "rack", "bench", "bodyweight",
          "pullup-bar"}

\* toLowerCase on the muscle names that occur
ToLowerCase(muscle) ==
    CASE muscle = "Chest" -> "chest"
      [] muscle = "Back" -> "back"
      [] OTHER -> muscle

\* mutant: a muscle without a matching exercise borrows those of the others
ExercisePoolWithFallback(exercises, muscle, equipmentFilter, type) ==
    LET Eligible(ex) ==
            /\ ToLowerCase(ex.muscle) = ToLowerCase(muscle)
            /\ ex.type = type
            /\ ("bodyweight" \in ex.equipment
                \/ ex.equipment \cap equipmentFilter /= {})
        OfType(ex) == ex.type = type
    IN  IF SelectSeq(exercises, Eligible) = <<>>
        THEN SelectSeq(exercises, OfType)
        ELSE SelectSeq(exercises, Eligible)

\* the filter of _selectExercisesForMuscleGroup
ExercisePool(exercises, muscle, equipmentFilter, type) ==
    LET Eligible(ex) ==
            /\ ToLowerCase(ex.muscle) = ToLowerCase(muscle)
            /\ ex.type = type
            /\ ("bodyweight" \in ex.equipment
                \/ ex.equipment \cap equipmentFilter /= {})
    IN  SelectSeq(exercises, Eligible)

\* mutant: only Primary exercises are ever selected
SelectPrimaryOnly(exercises, muscle, equipmentFilter, type, pick) ==
    LET exercisePool == ExercisePool(exercises, muscle, equipmentFilter, type)
    IN  IF Len(exercisePool) = 0 \/ type = "Secondary" THEN <<>>
        ELSE <<NewEntry(exercisePool[(pick % Len(exercisePool)) + 1])>>

\* sort(() => 0.5 - Math.random()).slice(0, 1): one entry of the pool, the
\* one the random draw `pick` brings to the front, or none from an empty pool
SelectExercisesForMuscleGroup(exercises, muscle, equipmentFilter, type, pick) ==
    LET exercisePool == ExercisePool(exercises, muscle, equipmentFilter, type)
    IN  IF Len(exercisePool) = 0 THEN <<>>
        ELSE <<NewEntry(exercisePool[(pick % Len(exercisePool)) + 1])>>

\* rnd is the cycle of random draws; acc carries the exercises of the day
\* being built, the remaining weekly volume and the number of draws made
BuildWeekTemplate(split, weeklyVolumeTargets, exercises, equipmentStyle, rnd) ==
    LET equipmentFilter == GetEquipmentFilter(equipmentStyle)
        Select(muscle, type, acc) ==
            SelectExercisesForMuscleGroup(exercises, muscle, equipmentFilter, type,
                                          rnd[acc.draws % RndLen])
        Push(muscle, found, acc) ==
            [exercises |-> acc.exercises \o found,
             remaining |-> [acc.remaining EXCEPT ![muscle] = @ - 3],
             draws |-> acc.draws + 1]
        RECURSIVE Primaries(_, _, _)
        Primaries(dayMuscles, k, acc) ==
            IF k > Len(dayMuscles) THEN acc
            ELSE IF acc.remaining[dayMuscles[k]] > 0
            THEN LET found == Select(dayMuscles[k], "Primary", acc)
                 IN  IF Len(found) > 0
                     THEN Primaries(dayMuscles, k + 1, Push(dayMuscles[k], found, acc))
                     ELSE Primaries(dayMuscles, k + 1, acc)
            ELSE Primaries(dayMuscles, k + 1, acc)
        RECURSIVE WhileRemaining(_, _)
        WhileRemaining(muscle, acc) ==
            IF acc.remaining[muscle] > 0
            THEN LET found == Select(muscle, "Secondary", acc)
                 IN  IF Len(found) > 0
                     THEN WhileRemaining(muscle, Push(muscle, found, acc))
                     ELSE acc
            ELSE acc
        RECURSIVE Secondaries(_, _, _)
        Secondaries(dayMuscles, k, acc) ==
            IF k > Len(dayMuscles) THEN acc
            ELSE Secondaries(dayMuscles, k + 1, WhileRemaining(dayMuscles[k], acc))
        RECURSIVE Days(_, _, _, _)
        Days(d, remaining, draws, weekTemplate) ==
            IF d > Len(split.days) THEN weekTemplate
            ELSE LET start == [exercises |-> <<>>, remaining |-> remaining,
                               draws |-> draws]
                     afterPrimary == Primaries(split.days[d].muscles, 1, start)
                     done == Secondaries(split.days[d].muscles, 1, afterPrimary)
                 IN  Days(d + 1, done.remaining, done.draws,
                          Append(weekTemplate,
                                 [name |-> split.days[d].label,
                                  exercises |-> done.exercises]))
    IN  Days(1, weeklyVolumeTargets, 0, <<>>)

\* mutant: the deload week keeps only the Primary exercises of each day
CreateMesocycleLightDeload(weekTemplate, weeks) ==
    [weeks |->
        [i \in 1..weeks |->
            [dayKey \in 1..Len(weekTemplate) |->
                [name |-> weekTemplate[dayKey].name,
                 exercises |->
                    WeekExercises(
                        IF i = weeks /\ weeks > 1
                        THEN SelectSeq(weekTemplate[dayKey].exercises,
                                       LAMBDA ex : ex.type = "Primary")
                        ELSE weekTemplate[dayKey].exercises,
                        i, weeks),
                 completed |-> FALSE]]]]

\* weeks[i][dayKey] is a copy of the day template with the week's targets
CreateFullMesocycle(weekTemplate, weeks) ==
    [weeks |->
        [i \in 1..weeks |->
            [dayKey \in 1..Len(weekTemplate) |->
                [name |-> weekTemplate[dayKey].name,
                 exercises |-> WeekExercises(weekTemplate[dayKey].exercises, i, weeks),
                 completed |-> FALSE]]]]

GenerateNewMesocycle(selections, exercises, weeks, rnd) ==
    LET split == GetSplitForDays(selections.daysPerWeek)
        landmarks == VolumeLandmarks(selections.trainingAge)
        weeklyVolumeTargets == CalculateInitialWeeklyVolume(split.muscles,
                                                            landmarks.mev)
        weeklyTemplate == BuildWeekTemplate(split, weeklyVolumeTargets, exercises,
                                            selections.style, rnd)
    IN  CreateFullMesocycle(weeklyTemplate, weeks)

----------------------------------------------------------------------------
(* Generating a plan: the catalogs and selections it is run on *)

CatalogExercise(muscle, type, tag, equipment) ==
    [name |-> <<muscle, " ", tag>>, muscle |-> muscle, type |-> type,
     equipment |-> equipment, alternatives |-> <<>>]

\* per muscle one barbell Primary and one dumbbell Secondary movement
MuscleExercises(muscle) ==
    <<CatalogExercise(muscle, "Primary", "lift", {"barbell", "rack"}),
      CatalogExercise(muscle, "Secondary", "raise", {"dumbbell"})>>

FullCatalog ==
    MuscleExercises("chest") \o MuscleExercises("back")
    \o MuscleExercises("quads") \o MuscleExercises("hamstrings")
    \o MuscleExercises("shoulders") \o MuscleExercises("biceps")
    \o MuscleExercises("triceps") \o MuscleExercises("core")
    \o <<CatalogExercise("Chest", "Primary", "pushup", {"bodyweight"}),
         CatalogExercise("Back", "Secondary", "pulldown", {"cable", "machine"}),
         CatalogExercise("quads", "Primary", "swing", {"kettlebell"})>>

CatalogWithoutCore == SelectSeq(FullCatalog, LAMBDA ex : ex.muscle /= "core")

Catalogs ==
    {<<>>, <<ExPress, ExInclinePress, ExRow, ExCableRow>>, FullCatalog,
     CatalogWithoutCore}

TrainingAges == {"novice", "beginner", "intermediate", "advanced", "elite"}
\* the split is chosen for any integer, also outside the 1..7 of a week
DaysPerWeek == {-1, 0, 3, 4, 5, 7}
Styles == {"gym", "home", "garage"}

\* the k-th draw of a generation is rnd[k % RndLen]
RandomDraws == [0..(RndLen - 1) -> {0, 1}]

\* createPlan: a mesocycle is generated from the selections and the catalog
Generate ==
    /\ mesocycle = NoPlan
    /\ \E rnd \in RandomDraws :
          mesocycle' = GenerateNewMesocycle(userSelections, allExercises,
                                            planWeeks, rnd)
    /\ UNCHANGED <<userSelections, allExercises, planWeeks>>
    /\ UNCHANGED <<advVars, rirVars, planVars, moreVars>>

InitGen ==
    /\ userSelections \in [trainingAge : TrainingAges, daysPerWeek : DaysPerWeek,
                           style : Styles]
    /\ allExercises \in Catalogs
    /\ planWeeks \in 1..MaxPlanWeeks
    /\ mesocycle = NoPlan
    /\ AdvIdle
    /\ RirIdle
    /\ PlanIdle
    /\ MoreIdle

NextGen == Generate

SpecGen == InitGen /\ [][NextGen]_vars

ExerciseIds(day) == [k \in 1..Len(day.exercises) |-> day.exercises[k].exerciseId]

\* C10: every week of a generated mesocycle has the days of week 1, with the
\* same names and the same exerciseIds in the same order
C10_WeeksShareTemplate ==
    mesocycle /= NoPlan =>
        \A w \in DOMAIN mesocycle.weeks :
            /\ DOMAIN mesocycle.weeks[w] = DOMAIN mesocycle.weeks[1]
            /\ \A d \in DOMAIN mesocycle.weeks[w] :
                  /\ mesocycle.weeks[w][d].name = mesocycle.weeks[1][d].name
                  /\ ExerciseIds(mesocycle.weeks[w][d])
                        = ExerciseIds(mesocycle.weeks[1][d])

\* a plan of several weeks whose deload week differs from week 1 in its
\* targets, on a day with a Primary and a Secondary exercise
C10_Witness ==
    /\ mesocycle /= NoPlan
    /\ planWeeks >= 3
    /\ Len(mesocycle.weeks) = planWeeks
    /\ \E d \in DOMAIN mesocycle.weeks[1] :
          /\ \E k \in DOMAIN mesocycle.weeks[1][d].exercises :
                mesocycle.weeks[1][d].exercises[k].type = "Secondary"
          /\ mesocycle.weeks[planWeeks][d].exercises[1].targetSets
                /= mesocycle.weeks[1][d].exercises[1].targetSets
          /\ mesocycle.weeks[planWeeks][d].exercises[1].targetRIR
                /= mesocycle.weeks[1][d].exercises[1].targetRIR

----------------------------------------------------------------------------
(* Claims on the generated plan *)

Generated == mesocycle /= NoPlan
LastWeek == Len(mesocycle.weeks)
DayKeys == DOMAIN mesocycle.weeks[1]
EntriesOf(w, d) == mesocycle.weeks[w][d].exercises

\* C11: in a generated mesocycle of two or more weeks every exercise of the
\* last (deload) week has targetSets = ceil(s / 2), s being its targetSets in
\* week 1, and at least 1; every exercise of an earlier week has targetSets 3
C11_DeloadHalvesSets ==
    (Generated /\ planWeeks >= 2) =>
        \A w \in DOMAIN mesocycle.weeks : \A d \in DOMAIN mesocycle.weeks[w] :
            \A k \in DOMAIN EntriesOf(w, d) :
                IF w = LastWeek
                THEN /\ 2 * EntriesOf(w, d)[k].targetSets
                            \in {EntriesOf(1, d)[k].targetSets,
                                 EntriesOf(1, d)[k].targetSets + 1}
                     /\ EntriesOf(w, d)[k].targetSets >= 1
                ELSE EntriesOf(w, d)[k].targetSets = 3

\* a plan of three or more weeks with exercises in its deload week
C11_Witness ==
    /\ Generated /\ planWeeks >= 3
    /\ LastWeek = planWeeks
    /\ \E d \in DayKeys : Len(EntriesOf(LastWeek, d)) >= 2

DayNames(w) == [d \in DOMAIN mesocycle.weeks[w] |-> mesocycle.weeks[w][d].name]

BeginnerGymFourDays ==
    /\ userSelections = [trainingAge |-> "beginner", daysPerWeek |-> 4,
                         style |-> "gym"]
    /\ planWeeks = 4

\* C12: the beginner, 4 days, gym profile with 4 weeks gives exactly 4 weeks,
\* each with the days Upper A, Lower A, Upper B, Lower B; week 4 has every
\* targetSets of week 1 halved and rounded up; the targetRIR of every
\* exercise is 3, 2, 1, 4 in weeks 1, 2, 3, 4
C12_BeginnerScenario ==
    (Generated /\ BeginnerGymFourDays) =>
        /\ DOMAIN mesocycle.weeks = 1..4
        /\ \A w \in 1..4 :
              DayNames(w) = <<"Upper A", "Lower A", "Upper B", "Lower B">>
        /\ \A d \in 1..4 : \A k \in DOMAIN EntriesOf(4, d) :
              EntriesOf(4, d)[k].targetSets
                 = (EntriesOf(1, d)[k].targetSets + 1) \div 2
        /\ \A w \in 1..4 : \A d \in 1..4 : \A k \in DOMAIN EntriesOf(w, d) :
              EntriesOf(w, d)[k].targetRIR = <<3, 2, 1, 4>>[w]

\* the scenario on the full catalog, with days that hold exercises
C12_Witness ==
    /\ Generated /\ BeginnerGymFourDays
    /\ allExercises = FullCatalog
    /\ \E d \in DayKeys : Len(EntriesOf(4, d)) >= 2

SplitOfSelections == GetSplitForDays(userSelections.daysPerWeek)
LabelsOf(split) == [d \in DOMAIN split.days |-> split.days[d].label]
EightMuscles ==
    {"chest", "back", "quads", "hamstrings", "shoulders", "biceps", "triceps",
     "core"}

\* C13: the split of any integer daysPerWeek is the Full Body template with
\* 3 days for <= 3, the Upper/Lower template with 4 days for 4 and the
\* Push/Pull/Legs template with 3 days for >= 5; every template has the same
\* 8 muscles, and the generated week has the days of the template
C13_SplitIsTotal ==
    Generated =>
        LET days == userSelections.daysPerWeek
            split == SplitOfSelections
        IN  /\ days <= 3 =>
                 /\ split.name = "Full Body"
                 /\ LabelsOf(split) = <<"Full Body A", "Full Body B", "Full Body C">>
            /\ days = 4 =>
                 /\ split.name = "Upper/Lower"
                 /\ LabelsOf(split) = <<"Upper A", "Lower A", "Upper B", "Lower B">>
            /\ days >= 5 =>
                 /\ split.name = "Push/Pull/Legs"
                 /\ LabelsOf(split) = <<"Push", "Pull", "Legs">>
            /\ {split.muscles[k] : k \in DOMAIN split.muscles} = EightMuscles
            /\ Len(split.muscles) = 8
            /\ \A w \in DOMAIN mesocycle.weeks : DayNames(w) = LabelsOf(split)

\* a plan generated for a negative daysPerWeek and one for five days
C13_Witness ==
    /\ Generated
    /\ userSelections.daysPerWeek \in {-1, 5}
    /\ Len(mesocycle.weeks[1]) = 3

PushPullLegs == <<"Push", "Pull", "Legs">>

\* C14: with daysPerWeek >= 5 every week of the generated mesocycle holds
\* daysPerWeek workouts: Push, Pull, Legs repeated in order to fill the week
C14_WeekFilledWithSplit ==
    (Generated /\ userSelections.daysPerWeek >= 5) =>
        \A w \in DOMAIN mesocycle.weeks :
            /\ Len(mesocycle.weeks[w]) = userSelections.daysPerWeek
            /\ \A d \in DOMAIN mesocycle.weeks[w] :
                  mesocycle.weeks[w][d].name = PushPullLegs[((d - 1) % 3) + 1]

\* the weeklyVolumeTargets of generateNewMesocycle for the selections
VolumeOfSelections ==
    CalculateInitialWeeklyVolume(SplitOfSelections.muscles,
                                 VolumeLandmarks(userSelections.trainingAge).mev)

SmallMuscles == {"biceps", "triceps", "core"}

\* C15: the weekly volume target of every muscle of the split is the mev of
\* the training age (novice 6, beginner 8, intermediate 10, advanced 12, any
\* other age 8), and for biceps, triceps and core three quarters of it with
\* halves rounded up (5, 6, 8, 9)
C15_WeeklyVolumeTargets ==
    Generated =>
        LET age == userSelections.trainingAge
            mev == CASE age = "novice" -> 6
                     [] age = "beginner" -> 8
                     [] age = "intermediate" -> 10
                     [] age = "advanced" -> 12
                     [] OTHER -> 8
            small == CASE mev = 6 -> 5
                       [] mev = 8 -> 6
                       [] mev = 10 -> 8
                       [] mev = 12 -> 9
        IN  /\ DOMAIN VolumeOfSelections = EightMuscles
            /\ \A m \in EightMuscles :
                  VolumeOfSelections[m] = IF m \in SmallMuscles THEN small ELSE mev

\* plans generated for an age outside the table and for one whose three
\* quarters is not whole
C15_Witness ==
    /\ Generated
    /\ userSelections.trainingAge \in {"elite", "novice"}
    /\ VolumeOfSelections["core"] \in {5, 6}
    /\ \E d \in DayKeys : Len(EntriesOf(1, d)) >= 1

EligiblePool(muscle, type) ==
    ExercisePool(allExercises, muscle, GetEquipmentFilter(userSelections.style),
                 type)

RECURSIVE CountFor(_, _, _)
\* the number of entries of the first k of `entries` that train `muscle`
CountFor(entries, k, muscle) ==
    IF k = 0 THEN 0
    ELSE CountFor(entries, k - 1, muscle)
         + (IF ToLowerCase(entries[k].muscle) = muscle THEN 1 ELSE 0)

RECURSIVE WeekCountFor(_, _)
\* the number of entries of days 1..d of week 1 that train `muscle`
WeekCountFor(d, muscle) ==
    IF d = 0 THEN 0
    ELSE WeekCountFor(d - 1, muscle)
         + CountFor(EntriesOf(1, d), Len(EntriesOf(1, d)), muscle)

SelectedFor(muscle) == WeekCountFor(Len(mesocycle.weeks[1]), muscle)

\* C16: for every muscle with an eligible Primary and an eligible Secondary
\* exercise in the catalog, 3 times the entries selected for it over the
\* week reach its weekly target, and no entry is selected beyond that
C16_VolumeFilled ==
    Generated =>
        \A m \in EightMuscles :
            (EligiblePool(m, "Primary") /= <<>> /\ EligiblePool(m, "Secondary") /= <<>>)
            => /\ 3 * SelectedFor(m) >= VolumeOfSelections[m]
               /\ 3 * (SelectedFor(m) - 1) < VolumeOfSelections[m]

\* a home plan where chest has both kinds of exercise (4 entries reach the
\* target of 12) and quads, without an eligible Primary, has not
C16_Witness ==
    /\ Generated
    /\ userSelections.style = "home"
    /\ userSelections.trainingAge = "advanced"
    /\ EligiblePool("chest", "Primary") /= <<>>
    /\ SelectedFor("chest") = 4
    /\ EligiblePool("quads", "Primary") = <<>>

\* the catalog without the exercises of a muscle
RemoveMuscle(catalog, muscle) ==
    SelectSeq(catalog, LAMBDA ex : ToLowerCase(ex.muscle) /= muscle)

\* a plan without the entries of a muscle
DropMuscle(plan, muscle) ==
    [weeks |->
        [w \in DOMAIN plan.weeks |->
            [d \in DOMAIN plan.weeks[w] |->
                [plan.weeks[w][d] EXCEPT
                    !.exercises =
                        SelectSeq(@, LAMBDA e : ToLowerCase(e.muscle) /= muscle)]]]]

\* the muscles whose removal from the catalog is compared
ComparedMuscles == {"core", "back"}

\* C17: generation ends with a plan of durationWeeks weeks for every profile
\* and catalog, the empty one included; a muscle without an eligible exercise
\* has no entry; and the entries of the other muscles are those of a
\* generation on the catalog without that muscle's exercises
C17_MissingMuscleIsSkipped ==
    Generated =>
        /\ Len(mesocycle.weeks) = planWeeks
        /\ \A w \in DOMAIN mesocycle.weeks :
              Len(mesocycle.weeks[w]) = Len(SplitOfSelections.days)
        /\ \A m \in EightMuscles :
              (EligiblePool(m, "Primary") = <<>> /\ EligiblePool(m, "Secondary") = <<>>)
              => SelectedFor(m) = 0
        /\ \A m \in ComparedMuscles :
              \E rnd \in RandomDraws :
                  GenerateNewMesocycle(userSelections, RemoveMuscle(allExercises, m),
                                       planWeeks, rnd)
                     = DropMuscle(mesocycle, m)

\* a plan generated on the catalog without core exercises: no core entry,
\* and the other muscles are trained
C17_Witness ==
    /\ Generated
    /\ allExercises = CatalogWithoutCore
    /\ SelectedFor("core") = 0
    /\ SelectedFor("quads") >= 2
    /\ SelectedFor("back") >= 2

\* the catalog exercise an entry was made from
CatalogExerciseOf(entry) ==
    allExercises[CHOOSE k \in DOMAIN allExercises :
                    allExercises[k].name = entry.name]

GymEquipment ==
    {"barbell", "dumbbell", "machine", "cable", "rack", "bench", "bodyweight",
     "pullup-bar"}
HomeEquipment == {"bodyweight", "dumbbell", "pullup-bar"}

EquipmentEligible(ex) ==
    \/ "bodyweight" \in ex.equipment
    \/ ex.equipment \cap (IF userSelections.style = "home" THEN HomeEquipment
                          ELSE GymEquipment) /= {}

DayMuscles(d) ==
    {SplitOfSelections.days[d].muscles[k] :
        k \in DOMAIN SplitOfSelections.days[d].muscles}

\* C18: every selected exercise trains a muscle of its day, is of the type
\* asked for (the Primary exercises of a day, at most one per muscle, then
\* the Secondary ones) and is equipment-eligible: bodyweight always, else a
\* tag of the home set under 'home' and of the gym set under any other style
C18_SelectedAreEligible ==
    Generated =>
        \A w \in DOMAIN mesocycle.weeks : \A d \in DOMAIN mesocycle.weeks[w] :
            LET entries == EntriesOf(w, d)
            IN  /\ \A k \in DOMAIN entries :
                      /\ ToLowerCase(entries[k].muscle) \in DayMuscles(d)
                      /\ entries[k].type \in {"Primary", "Secondary"}
                      /\ CatalogExerciseOf(entries[k]).type = entries[k].type
                      /\ CatalogExerciseOf(entries[k]).muscle = entries[k].muscle
                      /\ EquipmentEligible(CatalogExerciseOf(entries[k]))
                /\ \A j, k \in DOMAIN entries :
                      j < k =>
                         /\ ~(entries[j].type = "Secondary"
                              /\ entries[k].type = "Primary")
                         /\ ~(entries[j].type = "Primary"
                              /\ entries[k].type = "Primary"
                              /\ ToLowerCase(entries[j].muscle)
                                    = ToLowerCase(entries[k].muscle))

\* a home plan on the full catalog: the bodyweight pushup is its only
\* Primary exercise, next to dumbbell Secondary ones
C18_Witness ==
    /\ Generated
    /\ userSelections.style = "home"
    /\ allExercises = FullCatalog
    /\ \E d \in DayKeys : \E j, k \in DOMAIN EntriesOf(1, d) :
          /\ "bodyweight" \in CatalogExerciseOf(EntriesOf(1, d)[j]).equipment
          /\ "dumbbell" \in CatalogExerciseOf(EntriesOf(1, d)[k]).equipment

----------------------------------------------------------------------------
(* Training through a plan: the day objects of the active plan and the      *)
(* handlers that write to them                                               *)

\* mutant: the weeks share the day objects of the template
SharedAddress(i, dayKey) == <<1, dayKey>>

\* JSON.parse(JSON.stringify(dayTemplate)): a new object for week i, day dayKey
CopyAddress(i, dayKey) == <<i, dayKey>>

\* the selections and catalog of the plan that is trained through: two
\* exercises on the Push day, none on the Pull and Legs days
ActiveSelections == [trainingAge |-> "novice", daysPerWeek |-> 5, style |-> "gym"]
ActiveCatalog == <<ExPress, ExInclinePress>>
NoDraws == [k \in 0..(RndLen - 1) |-> 0]

\* the objects _createFullMesocycle leaves: weeks are written in order, so an
\* address written more than once holds what was written last
MesocycleRefs(weeks, days) ==
    [i \in 1..weeks |-> [dayKey \in 1..days |-> CopyAddress(i, dayKey)]]

MesocycleHeap(meso) ==
    LET weeks == Len(meso.weeks)
        days == IF weeks = 0 THEN 0 ELSE Len(meso.weeks[1])
        slots == (1..weeks) \X (1..days)
        Later(a, b) == a[1] > b[1] \/ (a[1] = b[1] /\ a[2] >= b[2])
        LastAt(address) ==
            CHOOSE a \in slots :
                /\ CopyAddress(a[1], a[2]) = address
                /\ \A b \in slots :
                      CopyAddress(b[1], b[2]) = address => Later(a, b)
    IN  [address \in {CopyAddress(a[1], a[2]) : a \in slots} |->
            meso.weeks[LastAt(address)[1]][LastAt(address)[2]]]

HasWorkout ==
    /\ activePlan /= <<>>
    /\ currentView.week \in DOMAIN activePlan
    /\ currentView.day \in DOMAIN activePlan[currentView.week]

ViewAddress == activePlan[currentView.week][currentView.day]
Workout == heap[ViewAddress]
InSession == HasWorkout /\ ~Workout.completed

RECURSIVE SumOf(_)
SumOf(numbers) ==
    IF numbers = <<>> THEN 0 ELSE Head(numbers) + SumOf(Tail(numbers))

SetsOfDay(day) == SumOf([k \in DOMAIN day.exercises |-> Len(day.exercises[k].sets)])

\* the number of sets logged in the plan
LoggedSets ==
    SumOf([w \in DOMAIN activePlan |->
              SumOf([d \in DOMAIN activePlan[w] |->
                        SetsOfDay(heap[activePlan[w][d]])])])

\* mutant: the days are walked before the weeks (day 1 of every week first)
FindNextWorkoutDayFirst(refs, objects, view) ==
    LET open == {a \in (DOMAIN refs) \X (1..Len(refs[1])) :
                    ~objects[refs[a[1]][a[2]]].completed}
    IN  IF open = {} THEN view
        ELSE LET first == CHOOSE a \in open :
                             \A b \in open :
                                 a[2] < b[2] \/ (a[2] = b[2] /\ a[1] <= b[1])
             IN  [week |-> first[1], day |-> first[2]]

\* findAndSetNextWorkout: the first workout not completed, weeks and days in
\* order; the view stays where it is when every workout is completed
FindNextWorkout(refs, objects, view) ==
    LET open == {a \in (DOMAIN refs) \X (1..Len(refs[1])) :
                    ~objects[refs[a[1]][a[2]]].completed}
    IN  IF open = {} THEN view
        ELSE LET first == CHOOSE a \in open :
                             \A b \in open :
                                 a[1] < b[1] \/ (a[1] = b[1] /\ a[2] <= b[2])
             IN  [week |-> first[1], day |-> first[2]]

\* the id of the plan, `meso_${Date.now()}`, by its number
PlanId == 1

\* a plan is generated, becomes the active plan and its first workout is shown
CreatePlan(weeks) ==
    /\ activePlan = <<>>
    /\ LET meso == GenerateNewMesocycle(ActiveSelections, ActiveCatalog, weeks,
                                        NoDraws)
           refs == MesocycleRefs(weeks, Len(meso.weeks[1]))
           objects == MesocycleHeap(meso)
       IN  /\ activePlan' = refs
           /\ heap' = objects
           /\ currentView' = FindNextWorkout(refs, objects, currentView)
           /\ activePlanId' = PlanId
    /\ UNCHANGED <<dailyCheckin, checkins, wasAdjusted, personalRecords, newPRs,
                   workoutHistory, advVars, rirVars, genVars, moreVars>>

\* addSet on the workout in view
LogAddSet(exerciseIndex) ==
    /\ InSession
    /\ exerciseIndex \in DOMAIN Workout.exercises
    /\ LoggedSets < MaxLogged
    /\ LET exercise == Workout.exercises[exerciseIndex]
           lastWeight == IF Len(exercise.sets) > 0
                         THEN exercise.sets[Len(exercise.sets)].weight
                         ELSE OrElse(exercise.targetLoad, Empty)
       IN  heap' = [heap EXCEPT ![ViewAddress].exercises[exerciseIndex].sets =
                Append(@, [weight |-> lastWeight, reps |-> Empty, rir |-> Empty])]
    /\ UNCHANGED <<activePlan, currentView, dailyCheckin, checkins, wasAdjusted,
                   personalRecords, newPRs, activePlanId, workoutHistory, advVars,
                   rirVars, genVars, moreVars>>

\* input on a weight field of the workout in view
LogWeight(exerciseIndex, setIndex, value) ==
    /\ InSession
    /\ exerciseIndex \in DOMAIN Workout.exercises
    /\ setIndex \in DOMAIN Workout.exercises[exerciseIndex].sets
    /\ heap' = [heap EXCEPT
            ![ViewAddress].exercises[exerciseIndex].sets[setIndex].weight =
                OrElse(value, Empty)]
    /\ UNCHANGED <<activePlan, currentView, dailyCheckin, checkins, wasAdjusted,
                   personalRecords, newPRs, activePlanId, workoutHistory, advVars,
                   rirVars, genVars, moreVars>>

\* input on a reps/RIR field of the workout in view
LogRepRir(exerciseIndex, setIndex, text) ==
    /\ InSession
    /\ exerciseIndex \in DOMAIN Workout.exercises
    /\ setIndex \in DOMAIN Workout.exercises[exerciseIndex].sets
    /\ heap' = [heap EXCEPT
            ![ViewAddress].exercises[exerciseIndex].sets[setIndex].reps =
                ParseReps(text),
            ![ViewAddress].exercises[exerciseIndex].sets[setIndex].rir =
                ParseRir(text)]
    /\ UNCHANGED <<activePlan, currentView, dailyCheckin, checkins, wasAdjusted,
                   personalRecords, newPRs, activePlanId, workoutHistory, advVars,
                   rirVars, genVars, moreVars>>

\* selectAlternative on the workout in view
SwapExercise(exerciseIndex, newExerciseName) ==
    /\ InSession
    /\ exerciseIndex \in DOMAIN Workout.exercises
    /\ LET currentExercise == Workout.exercises[exerciseIndex]
       IN  /\ HasExercise(currentExercise.name)
           /\ \E a \in 1..Len(ExerciseNamed(currentExercise.name).alternatives) :
                ExerciseNamed(currentExercise.name).alternatives[a] = newExerciseName
           /\ HasExercise(newExerciseName)
           /\ heap' = [heap EXCEPT ![ViewAddress].exercises[exerciseIndex] =
                [currentExercise EXCEPT
                    !.name = ExerciseNamed(newExerciseName).name,
                    !.muscle = ExerciseNamed(newExerciseName).muscle,
                    !.exerciseId = ExerciseIdOf(ExerciseNamed(newExerciseName).name),
                    !.sets = <<>>,
                    !.stallCount = 0,
                    !.note = currentExercise.name]]
    /\ UNCHANGED <<activePlan, currentView, dailyCheckin, checkins, wasAdjusted,
                   personalRecords, newPRs, activePlanId, workoutHistory, advVars,
                   rirVars, genVars, moreVars>>

\* mutant: the sets are reduced without a floor
ReduceSetsWithoutFloor(exercise) ==
    [exercise EXCEPT !.targetSets = @ - 1]

\* if (exercise.targetSets > 2) exercise.targetSets -= 1
ReduceSets(exercise) ==
    IF exercise.targetSets > 2
    THEN [exercise EXCEPT !.targetSets = @ - 1]
    ELSE exercise

\* mutant: true whenever recovery is poor
AdjustmentMadeWhenPoor(workout, sleep, stress) ==
    sleep < 6 \/ stress >= 7

\* adjustmentMade: some exercise had more than 2 sets under poor recovery
AdjustmentMade(workout, sleep, stress) ==
    /\ sleep < 6 \/ stress >= 7
    /\ \E k \in DOMAIN workout.exercises : workout.exercises[k].targetSets > 2

\* adjustWorkoutForRecovery on a workout
AdjustWorkoutForRecovery(workout, sleep, stress) ==
    IF sleep < 6 \/ stress >= 7
    THEN [workout EXCEPT !.exercises =
            [k \in DOMAIN workout.exercises |-> ReduceSets(workout.exercises[k])]]
    ELSE workout

\* submitCheckin: the check-in is recorded and the workout in view adjusted
SubmitCheckin(sleep, stress) ==
    /\ InSession \/ ~HasWorkout
    /\ checkins < MaxCheckins
    /\ dailyCheckin' = [sleep |-> sleep, stress |-> stress]
    /\ checkins' = checkins + 1
    /\ IF HasWorkout
       THEN /\ heap' = [heap EXCEPT ![ViewAddress] =
                           AdjustWorkoutForRecovery(@, sleep, stress)]
            /\ wasAdjusted' = AdjustmentMade(Workout, sleep, stress)
       ELSE /\ heap' = heap
            /\ wasAdjusted' = FALSE
    /\ UNCHANGED <<activePlan, currentView, personalRecords, newPRs, activePlanId,
                   workoutHistory, advVars, rirVars, genVars, moreVars>>

\* calculateE1RM: Math.round(weight * (1 + reps / 30)) in lb, for a weight in
\* steps of 2.5 lb: 2.5 * weight * (30 + reps) / 30, rounded half up
CalculateE1RM(weight, reps) ==
    IF ~Truthy(weight) \/ ~Truthy(reps) \/ reps < 1 THEN 0
    ELSE IF reps = 1 THEN (5 * weight + 1) \div 2
    ELSE (weight * (30 + reps) + 6) \div 12

\* the reduce of checkForPRs: the first set with the highest estimated 1RM
RECURSIVE TopSetOfTheSession(_, _)
TopSetOfTheSession(sets, best) ==
    IF sets = <<>> THEN best
    ELSE LET current == Head(sets)
             currentE1RM == CalculateE1RM(current.weight, current.reps)
         IN  IF ~Truthy(current.weight) \/ ~Truthy(current.reps)
             THEN TopSetOfTheSession(Tail(sets), best)
             ELSE TopSetOfTheSession(Tail(sets),
                     IF currentE1RM > best.e1rm
                     THEN [weight |-> current.weight, reps |-> current.reps,
                           e1rm |-> currentE1RM]
                     ELSE best)

NoTopSet == [weight |-> Null, reps |-> Null, e1rm |-> 0]

\* personalRecords.find(pr => pr.exerciseId === id): the index, 0 for none
FindPR(records, id) ==
    IF \E k \in DOMAIN records : records[k].exerciseId = id
    THEN CHOOSE k \in DOMAIN records :
            /\ records[k].exerciseId = id
            /\ \A j \in 1..(k - 1) : records[j].exerciseId /= id
    ELSE 0

\* mutant: an equal estimated 1RM is a new record too
IsNewPROrEqual(records, id, e1rm) ==
    FindPR(records, id) = 0 \/ e1rm >= records[FindPR(records, id)].e1rm

\* !existingPR || topSetOfTheSession.e1rm > existingPR.e1rm
IsNewPR(records, id, e1rm) ==
    FindPR(records, id) = 0 \/ e1rm > records[FindPR(records, id)].e1rm

\* checkForPRs: the records and the count after the exercises from k on
RECURSIVE CheckForPRsFrom(_, _, _, _, _)
CheckForPRsFrom(exercises, k, records, newPRsCount, units) ==
    IF k > Len(exercises) THEN [records |-> records, count |-> newPRsCount]
    ELSE LET ex == exercises[k]
             top == TopSetOfTheSession(ex.sets, NoTopSet)
         IN  IF ex.sets = <<>> \/ top.e1rm = 0
             THEN CheckForPRsFrom(exercises, k + 1, records, newPRsCount, units)
             ELSE IF IsNewPR(records, ex.exerciseId, top.e1rm)
             THEN CheckForPRsFrom(exercises, k + 1,
                     Append(SelectSeq(records,
                                LAMBDA pr : pr.exerciseId /= ex.exerciseId),
                            [exerciseId |-> ex.exerciseId,
                             exerciseName |-> ex.name,
                             weight |-> top.weight, reps |-> top.reps,
                             e1rm |-> top.e1rm, units |-> units]),
                     newPRsCount + 1, units)
             ELSE CheckForPRsFrom(exercises, k + 1, records, newPRsCount, units)

CheckForPRs(exercises, records, units) ==
    CheckForPRsFrom(exercises, 1, records, 0, units)

\* the sum over the sets of (set.weight || 0) * (set.reps || 0), the weight in
\* steps of 2.5
RECURSIVE VolumeOfSets(_)
VolumeOfSets(sets) ==
    IF sets = <<>> THEN 0
    ELSE OrElse(Head(sets).weight, 0) * OrElse(Head(sets).reps, 0)
            + VolumeOfSets(Tail(sets))

\* the entry completeWorkout puts in front of state.workoutHistory; exercises
\* is a copy by value
HistoryEntry(planId, workout) ==
    [planId |-> planId,
     workoutName |-> workout.name,
     volume |-> SumOf([k \in DOMAIN workout.exercises |->
                         VolumeOfSets(workout.exercises[k].sets)]),
     sets |-> SetsOfDay(workout),
     exercises |-> workout.exercises]

\* completeWorkout: the workout in view is marked completed, progression
\* writes to the same day of the next week, and the view moves on
CompleteWorkout ==
    /\ InSession
    /\ LET week == currentView.week
           day == currentView.day
           marked == [heap EXCEPT ![ViewAddress].completed = TRUE]
           objects ==
               IF week + 1 \in DOMAIN activePlan
               THEN [marked EXCEPT ![activePlan[week + 1][day]].exercises =
                        CalculateNextWorkoutProgression(
                            marked[ViewAddress].exercises, @, weightIncrement)]
               ELSE marked
           checked == CheckForPRs(Workout.exercises, personalRecords,
                                  settings.units)
       IN  /\ heap' = objects
           /\ personalRecords' = checked.records
           /\ newPRs' = checked.count
           /\ workoutHistory' = <<HistoryEntry(activePlanId, Workout)>>
                                    \o workoutHistory
           /\ currentView' = FindNextWorkout(activePlan, objects, currentView)
    /\ UNCHANGED <<activePlan, dailyCheckin, checkins, wasAdjusted, activePlanId,
                   advVars, rirVars, genVars, moreVars>>

\* sleep and stress submitted: short sleep, high stress, neither
CheckinInputs == {<<5, 3>>, <<6, 7>>, <<6, 3>>}
LoggedWeights == {16}
LoggedTexts == {<<Num(8), LetterR, Num(0)>>}
\* lengths of the plan that is trained through
ActiveWeeks == {2, 3}

InitPlan ==
    /\ PlanIdle
    /\ MoreIdle
    /\ AdvIdle
    /\ RirIdle
    /\ GenIdle

NextPlan ==
    \/ \E weeks \in ActiveWeeks : CreatePlan(weeks)
    \/ \E i \in 1..2 : LogAddSet(i)
    \/ \E i \in 1..2, k \in 1..(MaxLogged + 1), v \in LoggedWeights : LogWeight(i, k, v)
    \/ \E i \in 1..2, k \in 1..(MaxLogged + 1), t \in LoggedTexts : LogRepRir(i, k, t)
    \/ \E i \in 1..2, n \in {e.name : e \in Exercises} : SwapExercise(i, n)
    \/ \E c \in CheckinInputs : SubmitCheckin(c[1], c[2])
    \/ CompleteWorkout

SpecPlan == InitPlan /\ [][NextPlan]_vars

DayAt(w, d) == heap[activePlan[w][d]]

\* the workout in view has just been marked completed
ViewCompletes == ~Workout.completed /\ heap'[ViewAddress].completed

\* C19: a step of a handler changes no day of a week other than the week in
\* view, except that completing a workout changes the same day of the next
\* week
C19_WeeksDoNotAlias ==
    [][(activePlan /= <<>>) =>
          \A w \in DOMAIN activePlan : \A d \in DOMAIN activePlan[w] :
              (DayAt(w, d)' /= DayAt(w, d)) =>
                  \/ w = currentView.week
                  \/ /\ w = currentView.week + 1
                     /\ d = currentView.day
                     /\ ViewCompletes]_vars

\* a set was logged and the sets reduced in week 1, the workout completed and
\* progression has written to week 2, and week 3 is as generated
C19_Witness ==
    /\ activePlan /= <<>> /\ Len(activePlan) = 3
    /\ DayAt(1, 1).completed
    /\ DayAt(1, 1).exercises[1].sets /= <<>>
    /\ DayAt(1, 1).exercises[1].targetSets = 2
    /\ DayAt(2, 1).exercises[1].targetLoad /= Null
    /\ DayAt(3, 1).exercises
          = WeekExercises(<<NewEntry(ExPress), NewEntry(ExInclinePress)>>, 3, 3)

PoorRecovery(checkin) == checkin.sleep < 6 \/ checkin.stress >= 7

\* C20: a check-in with sleep < 6 or stress >= 7 takes exactly 1 off the
\* targetSets of every exercise of the workout in view that has more than 2,
\* leaves those with 2 or fewer as they are, and changes nothing else
C20_PoorRecoveryReducesSets ==
    [][(HasWorkout /\ checkins' = checkins + 1 /\ PoorRecovery(dailyCheckin')) =>
          /\ DOMAIN Workout'.exercises = DOMAIN Workout.exercises
          /\ \A k \in DOMAIN Workout.exercises :
                /\ Workout.exercises[k].targetSets > 2 =>
                      Workout'.exercises[k].targetSets
                         = Workout.exercises[k].targetSets - 1
                /\ Workout.exercises[k].targetSets <= 2 =>
                      Workout'.exercises[k].targetSets
                         = Workout.exercises[k].targetSets
                /\ [Workout'.exercises[k] EXCEPT
                        !.targetSets = Workout.exercises[k].targetSets]
                      = Workout.exercises[k]
          /\ [Workout' EXCEPT !.exercises = Workout.exercises] = Workout
          /\ \A a \in DOMAIN heap : a /= ViewAddress => heap'[a] = heap[a]
          /\ activePlan' = activePlan /\ currentView' = currentView]_vars

\* after a check-in with short sleep the exercises of a week-1 workout, still
\* in view, have 2 sets
C20_Witness ==
    /\ HasWorkout
    /\ checkins >= 1
    /\ PoorRecovery(dailyCheckin)
    /\ currentView = [week |-> 1, day |-> 1]
    /\ Len(Workout.exercises) = 2
    /\ \A k \in DOMAIN Workout.exercises : Workout.exercises[k].targetSets = 2

\* C21: the value returned by adjustWorkoutForRecovery at a check-in is true
\* exactly when some targetSets changed; with sleep >= 6 and stress < 7, or
\* without a workout at the current week and day, or with every targetSets
\* already <= 2, nothing changes and it is false
C21_ReturnsWhetherAdjusted ==
    [][(checkins' = checkins + 1) =>
          /\ wasAdjusted' <=> (heap' /= heap)
          /\ ~PoorRecovery(dailyCheckin') => (heap' = heap /\ ~wasAdjusted')
          /\ ~HasWorkout => (heap' = heap /\ ~wasAdjusted')
          /\ (HasWorkout /\ \A k \in DOMAIN Workout.exercises :
                              Workout.exercises[k].targetSets <= 2)
                => (heap' = heap /\ ~wasAdjusted')]_vars

\* a week-2 workout, whose exercises the generator gave 2 sets, has had a
\* check-in with poor recovery, and the adjuster returned false
C21_Witness ==
    /\ HasWorkout
    /\ checkins >= 1
    /\ PoorRecovery(dailyCheckin)
    /\ currentView.week = 2
    /\ Workout.exercises /= <<>>
    /\ \A k \in DOMAIN Workout.exercises : Workout.exercises[k].targetSets = 2
    /\ ~wasAdjusted

(***************************************************************************)
(* The recommendation after a logged set                                   *)
(* (workoutEngine.generateIntraWorkoutRecommendation).  A recommendation   *)
(* is a record: kind "prompt" (enter weight, reps and RIR), "increase" and *)
(* "decrease" (with the weight named), "drop" (drop weight significantly), *)
(* "hold" (with the weight named) or "none".                               *)
(***************************************************************************)
MaxRir == 6

Suggestion(kind, weight) == [kind |-> kind, weight |-> weight]

\* the number a value becomes in a subtraction: '' becomes 0
ToNumber(x) == IF x = Empty THEN 0 ELSE x

\* mutant: the decrease is not floored at 0
DecreaseWithoutFloor(weight, inc) ==
    Suggestion("decrease", weight - inc)

\* the diff < -1 branch
Decrease(weight, inc) ==
    LET newWeight == IF weight - inc > 0
                     THEN weight - inc ELSE 0
    IN  IF newWeight = 0
        THEN Suggestion("drop", Null)
        ELSE Suggestion("decrease", newWeight)

GenerateIntraWorkoutRecommendation(set, target, inc) ==
    IF ~Truthy(set.reps) \/ ~Truthy(set.weight) \/ set.rir = Null
    THEN Suggestion("prompt", Null)
    ELSE LET targetRIR == OrElse(target, 3)
             actualRIR == set.rir
             diff == ToNumber(actualRIR) - targetRIR
         IN  IF diff > 1
             THEN Suggestion("increase", set.weight + inc)
             ELSE IF diff < -1
             THEN Decrease(set.weight, inc)
             ELSE IF diff <= 1 /\ -diff <= 1
             THEN Suggestion("hold", set.weight)
             ELSE Suggestion("none", Null)

\* the weights, reps and RIR a set can hold: 2.5, 5 and 100 lb; '' when not
\* entered; a rir of null as well
SetWeights == {Empty, 1, 2, 40}
SetReps == {Empty, 8}
SetRirs == {Empty, Null} \cup (0..MaxRir)
TargetRIRs == {Null} \cup (0..4)

InitRecommend ==
    /\ completedSet \in [weight : SetWeights, reps : SetReps, rir : SetRirs]
    /\ exerciseTarget \in TargetRIRs
    /\ settingsStep \in {1, 2, 4}
    /\ recommendation = [kind |-> "idle", weight |-> Null]
    /\ PlanIdle
    /\ AdvIdle
    /\ RirIdle
    /\ GenIdle
    /\ SetIdle
    /\ checkedWorkout = <<>>
    /\ localStorage = NoItem
    /\ SessIdle
    /\ AppIdle
    /\ SyncIdle

Recommend ==
    /\ recommendation.kind = "idle"
    /\ recommendation' = GenerateIntraWorkoutRecommendation(
                             completedSet, exerciseTarget, settingsStep)
    /\ UNCHANGED <<completedSet, exerciseTarget, settingsStep>>
    /\ UNCHANGED exceptRec

NextRecommend == Recommend

SpecRecommend == InitRecommend /\ [][NextRecommend]_vars

Recommended == recommendation.kind /= "idle"

AllPresent ==
    /\ Truthy(completedSet.weight)
    /\ Truthy(completedSet.reps)
    /\ completedSet.rir \in 0..MaxRir

\* rir - targetRIR, the target taken as 3 only when it is unset
StatedDiff ==
    completedSet.rir - (IF exerciseTarget = Null THEN 3 ELSE exerciseTarget)

\* C23: with weight, reps and rir present, for every targetRIR in 0..4 (3
\* only when unset): rir - targetRIR > 1 gives the increase to weight +
\* weightIncrement, < -1 a decrease, and within 1 the hold at the same weight
C23_ThresholdsForEveryTarget ==
    (Recommended /\ AllPresent) =>
        /\ StatedDiff > 1 =>
              recommendation
                 = Suggestion("increase", completedSet.weight + settingsStep)
        /\ StatedDiff < -1 => recommendation.kind \in {"decrease", "drop"}
        /\ (StatedDiff <= 1 /\ StatedDiff >= -1) =>
              recommendation = Suggestion("hold", completedSet.weight)

\* C24: the prompt is returned whenever weight, reps or rir is absent (a rir
\* left as '' counts as absent), and a recommendation is returned when all
\* three are present with rir 0
C24_PromptWhenAnyAbsent ==
    Recommended =>
        /\ (\/ ~Truthy(completedSet.weight)
            \/ ~Truthy(completedSet.reps)
            \/ completedSet.rir \in {Empty, Null})
              => recommendation.kind = "prompt"
        /\ (AllPresent /\ completedSet.rir = 0)
              => recommendation.kind /= "prompt"

\* C25: in the too-hard case the suggestion is weight - weightIncrement when
\* that is above 0 and the drop-weight message otherwise; no suggestion names
\* a weight of 0 or less
C25_DecreaseStaysPositive ==
    Recommended =>
        /\ (AllPresent /\ StatedDiff < -1) =>
              IF completedSet.weight - settingsStep > 0
              THEN recommendation
                      = Suggestion("decrease", completedSet.weight - settingsStep)
              ELSE recommendation = Suggestion("drop", Null)
        /\ recommendation.kind = "decrease" => recommendation.weight > 0

\* a 5 lb set at rir 0 against a target of 3 with a 10 lb increment: the drop
\* message
C25_Witness ==
    /\ Recommended
    /\ completedSet = [weight |-> 2, reps |-> 8, rir |-> 0]
    /\ exerciseTarget = 3
    /\ settingsStep = 4
    /\ recommendation.kind = "drop"

(***************************************************************************)
(* The settings actions (setUnits, setProgressionModel,                    *)
(* setWeightIncrement, setRestDuration).  Each returns at once on a value  *)
(* that is not offered; otherwise it stores the value and writes the       *)
(* settings to local storage (googleSheets.updateState).                   *)
(***************************************************************************)
MaxSaves == 2

\* updateState('settings', state.settings): the settings as they are after
\* the assignment are written
UpdateSettings(new) ==
    /\ settings' = new
    /\ storedSettings' = new
    /\ saves' = saves + 1

Called(action, value) == lastCall' = [action |-> action, value |-> value]

SetUnits(unit) ==
    /\ Called("setUnits", unit)
    /\ IF unit /= "lbs" /\ unit /= "kg"
       THEN UNCHANGED <<settings, restRemaining, storedSettings, saves>>
       ELSE /\ saves < MaxSaves
            /\ UpdateSettings([settings EXCEPT !.units = unit])
            /\ UNCHANGED restRemaining
    /\ UNCHANGED exceptSet

SetProgressionModel(progression) ==
    /\ Called("setProgressionModel", progression)
    /\ IF progression /= "linear" /\ progression /= "double"
       THEN UNCHANGED <<settings, restRemaining, storedSettings, saves>>
       ELSE /\ saves < MaxSaves
            /\ UpdateSettings([settings EXCEPT !.progressionModel = progression])
            /\ UNCHANGED restRemaining
    /\ UNCHANGED exceptSet

SetIncrement(increment) ==
    /\ Called("setWeightIncrement", increment)
    /\ IF increment \notin {1, 2, 4}
       THEN UNCHANGED <<settings, restRemaining, storedSettings, saves>>
       ELSE /\ saves < MaxSaves
            /\ UpdateSettings([settings EXCEPT !.weightIncrement = increment])
            /\ UNCHANGED restRemaining
    /\ UNCHANGED exceptSet

\* mutant: any duration is stored
SetRestDurationUnchecked(duration) ==
    /\ Called("setRestDuration", duration)
    /\ saves < MaxSaves
    /\ UpdateSettings([settings EXCEPT !.restDuration = duration])
    /\ restRemaining' = duration
    /\ UNCHANGED exceptSet

SetRestDuration(duration) ==
    /\ Called("setRestDuration", duration)
    /\ IF duration \notin {60, 90, 120, 180}
       THEN UNCHANGED <<settings, restRemaining, storedSettings, saves>>
       ELSE /\ saves < MaxSaves
            /\ UpdateSettings([settings EXCEPT !.restDuration = duration])
            /\ restRemaining' = duration
    /\ UNCHANGED exceptSet

\* the values the settings actions are dispatched with: those offered and, for
\* each action, others ("stone", "wave", 7.5 lb, 0 lb, 45 s)
UnitInputs == {"lbs", "kg", "stone"}
ProgressionInputs == {"linear", "double", "wave"}
StepInputs == {0, 1, 2, 3, 4}
DurationInputs == {45, 60, 90, 120, 180}

InitSettings ==
    /\ SetIdle
    /\ checkedWorkout = <<>>
    /\ localStorage = NoItem
    /\ SessIdle
    /\ AppIdle
    /\ SyncIdle
    /\ RecIdle
    /\ PlanIdle
    /\ AdvIdle
    /\ RirIdle
    /\ GenIdle

NextSettings ==
    \/ \E unit \in UnitInputs : SetUnits(unit)
    \/ \E progression \in ProgressionInputs : SetProgressionModel(progression)
    \/ \E increment \in StepInputs : SetIncrement(increment)
    \/ \E duration \in DurationInputs : SetRestDuration(duration)

SpecSettings == InitSettings /\ [][NextSettings]_vars

SettingsInDomain ==
    /\ settings.units \in {"lbs", "kg"}
    /\ settings.weightIncrement \in {1, 2, 4}
    /\ settings.restDuration \in {60, 90, 120, 180}
    /\ settings.progressionModel \in {"linear", "double"}

\* the value of the call just dispatched is one the action does not offer
RejectedCall(call) ==
    \/ call.action = "setUnits" /\ call.value \notin {"lbs", "kg"}
    \/ call.action = "setProgressionModel"
          /\ call.value \notin {"linear", "double"}
    \/ call.action = "setWeightIncrement" /\ call.value \notin {1, 2, 4}
    \/ call.action = "setRestDuration"
          /\ call.value \notin {60, 90, 120, 180}

\* C30: units is 'lbs' or 'kg', weightIncrement one of 2.5, 5, 10,
\* restDuration one of 60, 90, 120, 180 and progressionModel 'linear' or
\* 'double' in every state; a settings action called with another value leaves
\* the settings and the rest timer as they are and writes nothing
C30_SettingsStayInDomain ==
    /\ []SettingsInDomain
    /\ [][(lastCall' /= lastCall /\ RejectedCall(lastCall')) =>
             UNCHANGED <<settings, restRemaining, storedSettings, saves>>]_vars

\* the rest duration was set to 120 s and written, and then 45 s was refused
C30_Witness ==
    /\ lastCall = [action |-> "setRestDuration", value |-> 45]
    /\ settings.restDuration = 120
    /\ restRemaining = 120
    /\ storedSettings = settings
    /\ saves >= 1

(***************************************************************************)
(* Personal records over a sequence of sessions: a session is started on   *)
(* one or two exercises, sets are logged, and on completion checkForPRs    *)
(* goes over its exercises.                                                *)
(***************************************************************************)
MaxSessionSets == 2

\* the exercises of a session: one, two, or the same twice (an exercise
\* swapped for an alternative that is already part of the day)
SessionExercises ==
    {<<NewEntry(ExPress)>>,
     <<NewEntry(ExPress), NewEntry(ExInclinePress)>>,
     <<NewEntry(ExPress), NewEntry(ExPress)>>}

\* logged sets: 40 lb x 8, 50 lb x 8, 40 lb x 1, and sets without weight or
\* without reps
SessionSets ==
    {[weight |-> 16, reps |-> 8, rir |-> 1],
     [weight |-> 20, reps |-> 8, rir |-> 1],
     [weight |-> 16, reps |-> 1, rir |-> 0],
     [weight |-> Empty, reps |-> 8, rir |-> 1],
     [weight |-> 16, reps |-> Empty, rir |-> Empty]}

StartSession(exercises) ==
    /\ checkedWorkout = <<>>
    /\ checkedWorkout' = exercises
    /\ UNCHANGED <<personalRecords, newPRs>>
    /\ UNCHANGED exceptRecords

LogSet(exerciseIndex, set) ==
    /\ exerciseIndex \in DOMAIN checkedWorkout
    /\ SumOf([k \in DOMAIN checkedWorkout |-> Len(checkedWorkout[k].sets)])
          < MaxSessionSets
    /\ checkedWorkout' =
          [checkedWorkout EXCEPT ![exerciseIndex].sets = Append(@, set)]
    /\ UNCHANGED <<personalRecords, newPRs>>
    /\ UNCHANGED exceptRecords

CompleteSession ==
    /\ checkedWorkout /= <<>>
    /\ LET checked == CheckForPRs(checkedWorkout, personalRecords, settings.units)
       IN  /\ personalRecords' = checked.records
           /\ newPRs' = checked.count
    /\ checkedWorkout' = <<>>
    /\ UNCHANGED exceptRecords

InitRecords ==
    /\ PlanIdle
    /\ MoreIdle
    /\ AdvIdle
    /\ RirIdle
    /\ GenIdle

NextRecords ==
    \/ \E exercises \in SessionExercises : StartSession(exercises)
    \/ \E i \in 1..2, set \in SessionSets : LogSet(i, set)
    \/ CompleteSession

SpecRecords == InitRecords /\ [][NextRecords]_vars

MaxOf(numbers) == CHOOSE n \in numbers : \A m \in numbers : m <= n

\* the stored estimated 1RM of an exercise, 0 when it has no record
StoredE1RM(records, id) ==
    MaxOf({0} \cup {records[k].e1rm : k \in {j \in DOMAIN records :
                                                records[j].exerciseId = id}})

\* the best estimated 1RM among the sets of an exercise that have weight and
\* reps, 0 when there is none
SessionBest(ex) ==
    MaxOf({0} \cup {CalculateE1RM(ex.sets[k].weight, ex.sets[k].reps) :
                       k \in {j \in DOMAIN ex.sets :
                                 Truthy(ex.sets[j].weight) /\ Truthy(ex.sets[j].reps)}})

\* the bests of the session's exercises with a given id, among the first n
BestsOf(id, n) ==
    {SessionBest(checkedWorkout[j]) :
        j \in {i \in 1..n : checkedWorkout[i].exerciseId = id}}

\* the exercises of the session that beat what is stored when their turn comes
RecordBreakers ==
    {k \in DOMAIN checkedWorkout :
        LET id == checkedWorkout[k].exerciseId
        IN  SessionBest(checkedWorkout[k])
               > MaxOf({StoredE1RM(personalRecords, id)} \cup BestsOf(id, k - 1))}

OnePerExercise ==
    \A j, k \in DOMAIN personalRecords :
        personalRecords[j].exerciseId = personalRecords[k].exerciseId => j = k

SessionCompletes == checkedWorkout /= <<>> /\ checkedWorkout' = <<>>

RecordIds(records) == {records[k].exerciseId : k \in DOMAIN records}

\* C27: personalRecords holds at most one record per exerciseId; a completion
\* replaces or creates a record only for a session best strictly above the
\* stored estimated 1RM, so no stored e1rm decreases and a record that is not
\* beaten stays as it is; the count returned is the number of records replaced
\* or created
C27_OneRecordPerExercise ==
    /\ []OnePerExercise
    /\ [][SessionCompletes =>
             /\ newPRs' = Cardinality(RecordBreakers)
             /\ \A id \in RecordIds(personalRecords) \cup RecordIds(personalRecords')
                        \cup {checkedWorkout[k].exerciseId : k \in DOMAIN checkedWorkout} :
                   LET stored == StoredE1RM(personalRecords, id)
                       best == MaxOf({0} \cup BestsOf(id, Len(checkedWorkout)))
                   IN  /\ StoredE1RM(personalRecords', id) = MaxOf({stored, best})
                       /\ StoredE1RM(personalRecords', id) >= stored
                       /\ (id \in RecordIds(personalRecords') <=>
                              MaxOf({stored, best}) > 0)
                       /\ best <= stored =>
                              \A k \in DOMAIN personalRecords :
                                 personalRecords[k].exerciseId = id =>
                                    \E j \in DOMAIN personalRecords' :
                                       personalRecords'[j] = personalRecords[k]]_vars

\* the press record stands at 50 lb x 8 (estimated 63 lb) after a session of
\* two press entries, both of which beat what was stored when their turn came
C27_Witness ==
    /\ checkedWorkout = <<>>
    /\ newPRs = 2
    /\ Len(personalRecords) = 1
    /\ personalRecords[1].exerciseId = ExerciseIdOf(NamePress)
    /\ personalRecords[1].e1rm = 63

(***************************************************************************)
(* Local storage: saveToLocalStorage writes JSON.stringify(dataToSave),    *)
(* and on the next start of the page loadFromLocalStorage parses the item  *)
(* and applyDataToState puts it over the defaults of the state.  JSON text *)
(* is modelled by its value tree: every value carries its JSON type.       *)
(***************************************************************************)
JsonNull == [t |-> "null"]
JsonNumber(n) == [t |-> "number", v |-> n]
JsonString(text) == [t |-> "string", v |-> text]
JsonBoolean(b) == [t |-> "boolean", v |-> b]
JsonArray(items) == [t |-> "array", v |-> items]
JsonObject(members) == [t |-> "object", v |-> members]

\* a number, '' or null
StringifyScalar(x) ==
    IF x = Null THEN JsonNull
    ELSE IF x = Empty THEN JsonString(<<>>)
    ELSE JsonNumber(x)

ParseScalar(json) ==
    IF json.t = "null" THEN Null
    ELSE IF json.t = "string" /\ json.v = <<>> THEN Empty
    ELSE json.v

\* the members of the plan's objects that hold text
TextMembers == {"exerciseId", "name", "muscle", "type", "note", "exerciseName",
                "units", "workoutName", "trainingAge", "style",
                "progressionModel"}

StringifySet(set) == JsonObject([f \in DOMAIN set |-> StringifyScalar(set[f])])

ParseSet(json) == [f \in DOMAIN json.v |-> ParseScalar(json.v[f])]

StringifyExercises(exercises) ==
    JsonArray([k \in DOMAIN exercises |->
        JsonObject([f \in DOMAIN exercises[k] |->
            IF f = "sets"
            THEN JsonArray([j \in DOMAIN exercises[k].sets |->
                               StringifySet(exercises[k].sets[j])])
            ELSE IF f \in TextMembers THEN JsonString(exercises[k][f])
            ELSE StringifyScalar(exercises[k][f])])])

ParseExercises(json) ==
    [k \in DOMAIN json.v |->
        [f \in DOMAIN json.v[k].v |->
            IF f = "sets"
            THEN [j \in DOMAIN json.v[k].v.sets.v |->
                     ParseSet(json.v[k].v.sets.v[j])]
            ELSE IF f \in TextMembers THEN json.v[k].v[f].v
            ELSE ParseScalar(json.v[k].v[f])]]

StringifyDay(day) ==
    JsonObject([name |-> JsonString(day.name),
                exercises |-> StringifyExercises(day.exercises),
                completed |-> JsonBoolean(day.completed)])

ParseDay(json) ==
    [name |-> json.v.name.v,
     exercises |-> ParseExercises(json.v.exercises),
     completed |-> json.v.completed.v]

\* a record of numbers and text: settings, userSelections, currentView, a
\* personal record
StringifyFlat(object) ==
    JsonObject([f \in DOMAIN object |->
        IF f \in TextMembers THEN JsonString(object[f])
        ELSE StringifyScalar(object[f])])

ParseFlat(json) ==
    [f \in DOMAIN json.v |->
        IF f \in TextMembers THEN json.v[f].v ELSE ParseScalar(json.v[f])]

StringifyPlan(plan) ==
    JsonObject([id |-> StringifyScalar(plan.id),
                durationWeeks |-> StringifyScalar(plan.durationWeeks),
                weeks |-> JsonObject([w \in DOMAIN plan.weeks |->
                             JsonObject([d \in DOMAIN plan.weeks[w] |->
                                StringifyDay(plan.weeks[w][d])])])])

ParsePlan(json) ==
    [id |-> ParseScalar(json.v.id),
     durationWeeks |-> ParseScalar(json.v.durationWeeks),
     weeks |-> [w \in DOMAIN json.v.weeks.v |->
                  [d \in DOMAIN json.v.weeks.v[w].v |->
                      ParseDay(json.v.weeks.v[w].v[d])]]]

StringifyHistory(entry) ==
    JsonObject([planId |-> StringifyScalar(entry.planId),
                workoutName |-> JsonString(entry.workoutName),
                volume |-> StringifyScalar(entry.volume),
                sets |-> StringifyScalar(entry.sets),
                exercises |-> StringifyExercises(entry.exercises)])

ParseHistory(json) ==
    [planId |-> ParseScalar(json.v.planId),
     workoutName |-> json.v.workoutName.v,
     volume |-> ParseScalar(json.v.volume),
     sets |-> ParseScalar(json.v.sets),
     exercises |-> ParseExercises(json.v.exercises)]

\* state.allPlans: the plans by value
AllPlans ==
    IF activePlan = <<>> THEN <<>>
    ELSE <<[id |-> PlanId,
            durationWeeks |-> Len(activePlan),
            weeks |-> [w \in DOMAIN activePlan |->
                         [d \in DOMAIN activePlan[w] |-> heap[activePlan[w][d]]]]]>>

\* JSON.stringify(dataToSave)
DataToSave ==
    JsonObject(
        [userSelections |-> StringifyFlat(userSelections),
         settings |-> StringifyFlat(settings),
         allPlans |-> JsonArray([k \in DOMAIN AllPlans |->
                                   StringifyPlan(AllPlans[k])]),
         activePlanId |-> StringifyScalar(activePlanId),
         workoutHistory |-> JsonArray([k \in DOMAIN workoutHistory |->
                                         StringifyHistory(workoutHistory[k])]),
         personalRecords |-> JsonArray([k \in DOMAIN personalRecords |->
                                          StringifyFlat(personalRecords[k])]),
         currentView |-> StringifyFlat(currentView),
         isWorkoutInProgress |-> JsonBoolean(isWorkoutInProgress)])

SaveToLocalStorage ==
    /\ localStorage = NoItem
    /\ localStorage' = DataToSave
    /\ UNCHANGED <<advVars, rirVars, genVars, planVars, recVars, setVars,
                   checkedWorkout, sessVars, appVars, syncVars>>

\* mutant: the plans are read from the key of the spreadsheet format
LoadedPlansOfSheetsKey(members) ==
    IF "AllPlans" \in DOMAIN members
    THEN [k \in DOMAIN members.AllPlans.v |-> ParsePlan(members.AllPlans.v[k])]
    ELSE <<>>

\* data.allPlans || []
LoadedPlans(members) ==
    IF "allPlans" \in DOMAIN members
    THEN [k \in DOMAIN members.allPlans.v |-> ParsePlan(members.allPlans.v[k])]
    ELSE <<>>

\* { ...defaults, ...loaded }
Spread(defaults, loaded) ==
    [f \in DOMAIN defaults \cup DOMAIN loaded |->
        IF f \in DOMAIN loaded THEN loaded[f] ELSE defaults[f]]

\* the page starts again: the state has its defaults, and applyDataToState
\* puts the parsed item over them
Reload ==
    /\ localStorage /= NoItem
    /\ LET data == localStorage.v
           plans == LoadedPlans(data)
       IN  /\ userSelections' =
                 Spread([trainingAge |-> "beginner", daysPerWeek |-> 4,
                         style |-> "gym"],
                        ParseFlat(data.userSelections))
           /\ settings' = Spread(DefaultSettings, ParseFlat(data.settings))
           /\ IF plans = <<>>
              THEN activePlan' = <<>> /\ heap' = <<>>
              ELSE /\ activePlan' =
                        [w \in DOMAIN plans[1].weeks |->
                            [d \in DOMAIN plans[1].weeks[w] |-> CopyAddress(w, d)]]
                   /\ heap' = MesocycleHeap(plans[1])
           /\ activePlanId' =
                 OrElse(ParseScalar(data.activePlanId),
                        IF Len(plans) > 0 THEN plans[1].id ELSE Null)
           /\ currentView' = ParseFlat(data.currentView)
           /\ workoutHistory' = [k \in DOMAIN data.workoutHistory.v |->
                                    ParseHistory(data.workoutHistory.v[k])]
           /\ personalRecords' = [k \in DOMAIN data.personalRecords.v |->
                                     ParseFlat(data.personalRecords.v[k])]
           /\ isWorkoutInProgress' = data.isWorkoutInProgress.v
    /\ dailyCheckin' = NoCheckin
    /\ checkins' = 0
    /\ wasAdjusted' = FALSE
    /\ newPRs' = 0
    /\ UNCHANGED <<allExercises, planWeeks, mesocycle>>
    /\ UNCHANGED <<restRemaining, storedSettings, saves, lastCall>>
    /\ UNCHANGED <<sessionPlans, currentViewName, checkinModal, adjustedDays>>
    /\ UNCHANGED <<advVars, rirVars, recVars, checkedWorkout, localStorage, appVars, syncVars>>

InitStore ==
    /\ PlanIdle
    /\ MoreIdle
    /\ AdvIdle
    /\ RirIdle
    /\ GenIdle

\* what happens to the plan before it is saved: generation, logging on the
\* first exercise, check-in, completion with progression
Train ==
    \/ \E weeks \in ActiveWeeks : CreatePlan(weeks)
    \/ LogAddSet(1)
    \/ \E k \in 1..(MaxLogged + 1), v \in LoggedWeights : LogWeight(1, k, v)
    \/ \E k \in 1..(MaxLogged + 1), t \in LoggedTexts : LogRepRir(1, k, t)
    \/ \E c \in CheckinInputs : SubmitCheckin(c[1], c[2])
    \/ CompleteWorkout

NextStore ==
    \/ localStorage = NoItem /\ Train
    \/ SaveToLocalStorage
    \/ Reload

SpecStore == InitStore /\ [][NextStore]_vars

\* the page is started again on what was saved
Reloads == localStorage /= NoItem /\ localStorage' = localStorage

C29_EveryKeySurvivesReload ==
    [][Reloads =>
          /\ userSelections' = userSelections
          /\ settings' = settings
          /\ AllPlans' = AllPlans
          /\ activePlanId' = activePlanId
          /\ workoutHistory' = workoutHistory
          /\ personalRecords' = personalRecords
          /\ currentView' = currentView
          /\ checkins' = checkins]_vars

(***************************************************************************)
(* The user who keeps two plans and moves between them: plan creation,     *)
(* the navigation (showView), startPlanWorkout and setActivePlan of the    *)
(* plan list, the daily check-in and completeWorkout.  The plans are held  *)
(* by value; no sets are logged.                                           *)
(***************************************************************************)
MaxPlans == 2
MaxSessionWeeks == 2
MaxSessionCheckins == 2
MaxRuns == 2

HasActivePlan == activePlanId \in DOMAIN sessionPlans

\* activePlan.weeks[week]?.[day] exists
HasSessionWorkout ==
    /\ HasActivePlan
    /\ currentView.week \in DOMAIN sessionPlans[activePlanId].weeks
    /\ currentView.day \in DOMAIN sessionPlans[activePlanId].weeks[currentView.week]

SessionWorkout ==
    sessionPlans[activePlanId].weeks[currentView.week][currentView.day]

SessionDay == <<activePlanId, currentView.week, currentView.day>>

\* findAndSetNextWorkout(planId) finds a workout that is not completed
WorkoutFound(planId) ==
    /\ planId \in DOMAIN sessionPlans
    /\ \E w \in DOMAIN sessionPlans[planId].weeks :
          \E d \in DOMAIN sessionPlans[planId].weeks[w] :
             ~sessionPlans[planId].weeks[w][d].completed

\* state.currentView after findAndSetNextWorkout(planId)
NextWorkoutOf(planId, all) ==
    IF planId \in DOMAIN all
    THEN FindNextWorkout(
            MesocycleRefs(Len(all[planId].weeks), Len(all[planId].weeks[1])),
            MesocycleHeap(all[planId]), currentView)
    ELSE currentView

\* 'Yes, Create': a plan is generated, pushed and made the active plan
CreateNewPlan ==
    /\ ~checkinModal
    /\ Len(sessionPlans) < MaxPlans
    /\ sessionPlans' =
          Append(sessionPlans,
                 GenerateNewMesocycle(ActiveSelections, ActiveCatalog,
                                      MaxSessionWeeks, NoDraws))
    /\ activePlanId' = Len(sessionPlans) + 1
    /\ currentViewName' = "settings"
    /\ UNCHANGED <<isWorkoutInProgress, checkinModal, adjustedDays, currentView,
                   dailyCheckin, checkins, workoutHistory>>
    /\ UNCHANGED exceptSession

\* the showView action of the navigation
ShowView(viewName) ==
    /\ ~checkinModal
    /\ IF viewName = "workout" /\ isWorkoutInProgress
       THEN /\ currentViewName' = "workout"
            /\ UNCHANGED <<currentView, checkinModal>>
       ELSE IF viewName = "workout"
       THEN /\ currentView' = NextWorkoutOf(activePlanId, sessionPlans)
            /\ checkinModal' = WorkoutFound(activePlanId)
            /\ UNCHANGED currentViewName
       ELSE /\ currentViewName' = viewName
            /\ UNCHANGED <<currentView, checkinModal>>
    /\ UNCHANGED <<sessionPlans, isWorkoutInProgress, adjustedDays, activePlanId,
                   dailyCheckin, checkins, workoutHistory>>
    /\ UNCHANGED exceptSession

\* the Start button of a plan in the plan list of the settings view
StartPlanWorkout(planId) ==
    /\ ~checkinModal
    /\ currentViewName = "settings"
    /\ planId \in DOMAIN sessionPlans
    /\ activePlanId' = planId
    /\ currentView' = NextWorkoutOf(planId, sessionPlans)
    /\ IF WorkoutFound(planId)
       THEN IF isWorkoutInProgress
            THEN currentViewName' = "workout" /\ UNCHANGED checkinModal
            ELSE checkinModal' = TRUE /\ UNCHANGED currentViewName
       ELSE UNCHANGED <<currentViewName, checkinModal>>
    /\ UNCHANGED <<sessionPlans, isWorkoutInProgress, adjustedDays, dailyCheckin,
                   checkins, workoutHistory>>
    /\ UNCHANGED exceptSession

\* the name of a plan in the plan list of the settings view
SetActivePlan(planId) ==
    /\ ~checkinModal
    /\ currentViewName = "settings"
    /\ planId \in DOMAIN sessionPlans
    /\ activePlanId' = planId
    /\ UNCHANGED <<sessionPlans, isWorkoutInProgress, currentViewName,
                   checkinModal, adjustedDays, currentView, dailyCheckin, checkins,
                   workoutHistory>>
    /\ UNCHANGED exceptSession

\* submitCheckin from the check-in modal
SubmitSessionCheckin(sleep, stress) ==
    /\ checkinModal
    /\ checkins < MaxSessionCheckins
    /\ dailyCheckin' = [sleep |-> sleep, stress |-> stress]
    /\ checkins' = checkins + 1
    /\ IF HasSessionWorkout
       THEN /\ sessionPlans' =
                 [sessionPlans EXCEPT
                    ![activePlanId].weeks[currentView.week][currentView.day] =
                        AdjustWorkoutForRecovery(@, sleep, stress)]
            /\ adjustedDays' = adjustedDays \cup {SessionDay}
       ELSE UNCHANGED <<sessionPlans, adjustedDays>>
    /\ checkinModal' = FALSE
    /\ isWorkoutInProgress' = TRUE
    /\ currentViewName' = "workout"
    /\ UNCHANGED <<activePlanId, currentView, workoutHistory>>
    /\ UNCHANGED exceptSession

\* completeWorkout from the workout view
CompleteSessionWorkout ==
    /\ ~checkinModal
    /\ currentViewName = "workout"
    /\ HasSessionWorkout
    /\ Len(workoutHistory) < MaxRuns
    /\ LET week == currentView.week
           day == currentView.day
           marked == [sessionPlans EXCEPT
                        ![activePlanId].weeks[week][day].completed = TRUE]
           all == IF week + 1 \in DOMAIN sessionPlans[activePlanId].weeks
                  THEN [marked EXCEPT
                          ![activePlanId].weeks[week + 1][day].exercises =
                              CalculateNextWorkoutProgression(
                                  SessionWorkout.exercises, @,
                                  settings.weightIncrement)]
                  ELSE marked
       IN  /\ sessionPlans' = all
           /\ workoutHistory' =
                 <<HistoryEntry(activePlanId, SessionWorkout)>> \o workoutHistory
           /\ currentView' = NextWorkoutOf(activePlanId, all)
    /\ isWorkoutInProgress' = FALSE
    /\ currentViewName' = "workoutSummary"
    /\ UNCHANGED <<checkinModal, adjustedDays, activePlanId, dailyCheckin, checkins>>
    /\ UNCHANGED exceptSession

InitSession ==
    /\ PlanIdle
    /\ MoreIdle
    /\ AdvIdle
    /\ RirIdle
    /\ GenIdle

NextSession ==
    \/ CreateNewPlan
    \/ \E viewName \in {"home", "workout", "settings"} : ShowView(viewName)
    \/ \E planId \in 1..MaxPlans : StartPlanWorkout(planId)
    \/ \E planId \in 1..MaxPlans : SetActivePlan(planId)
    \/ \E c \in CheckinInputs : SubmitSessionCheckin(c[1], c[2])
    \/ CompleteSessionWorkout

SpecSession == InitSession /\ [][NextSession]_vars

SessionDays ==
    {a \in (DOMAIN sessionPlans) \X (1..MaxSessionWeeks) \X (1..3) :
        /\ a[2] \in DOMAIN sessionPlans[a[1]].weeks
        /\ a[3] \in DOMAIN sessionPlans[a[1]].weeks[a[2]]}

DayOf(all, a) == all[a[1]].weeks[a[2]][a[3]]

\* targetSets as _createFullMesocycle leaves them: 3, in the deload week 2
GeneratedSets(a) == IF a[2] = MaxSessionWeeks THEN 2 ELSE 3

\* C22: the recovery adjuster is applied at most once to any day workout, and
\* a day that is not completed has lost at most 1 of its targetSets
C22_AdjustedAtMostOncePerDay ==
    /\ [][(checkinModal /\ ~checkinModal' /\ HasSessionWorkout) =>
             SessionDay \notin adjustedDays]_vars
    /\ [](\A a \in SessionDays :
             ~DayOf(sessionPlans, a).completed =>
                \A k \in DOMAIN DayOf(sessionPlans, a).exercises :
                   DayOf(sessionPlans, a).exercises[k].targetSets
                      >= GeneratedSets(a) - 1)

\* C26: a completed flag never goes back to false, and completeWorkout never
\* runs on a day whose completed flag is already true
C26_CompletedExactlyOnce ==
    /\ [][\A a \in SessionDays :
             DayOf(sessionPlans, a).completed => DayOf(sessionPlans', a).completed]_vars
    /\ [][Len(workoutHistory') > Len(workoutHistory) =>
             ~SessionWorkout.completed]_vars

----------------------------------------------------------------------------
(* Further claims on the generated plan (SpecGen) *)

\* the muscles the split of the selections trains
SplitMuscles == UNION {DayMuscles(d) : d \in DOMAIN SplitOfSelections.days}

\* C36: no day of a generated mesocycle holds two entries with the same
\* exerciseId, whatever the catalog and the random draws
C36_NoDuplicateExerciseInDay ==
    Generated =>
        \A w \in DOMAIN mesocycle.weeks : \A d \in DOMAIN mesocycle.weeks[w] :
            \A j, k \in DOMAIN EntriesOf(w, d) :
                j /= k => EntriesOf(w, d)[j].exerciseId /= EntriesOf(w, d)[k].exerciseId

\* C37: when every muscle of the split has an eligible Primary and an
\* eligible Secondary exercise, every day of every week has an exercise and
\* every muscle the split lists for a day has an entry on that day
C37_EveryDayTrainsItsMuscles ==
    (/\ Generated
     /\ \A m \in SplitMuscles :
           EligiblePool(m, "Primary") /= <<>> /\ EligiblePool(m, "Secondary") /= <<>>)
    => \A w \in DOMAIN mesocycle.weeks : \A d \in DOMAIN mesocycle.weeks[w] :
          /\ EntriesOf(w, d) /= <<>>
          /\ \A m \in DayMuscles(d) :
                \E k \in DOMAIN EntriesOf(w, d) :
                    ToLowerCase(EntriesOf(w, d)[k].muscle) = m

(***************************************************************************)
(* The application as the user drives it: the plan list (create, start,    *)
(* set active, delete), the navigation, the daily check-in, the handlers   *)
(* of the workout view, completeWorkout and the workout stopwatch.  The    *)
(* plans are held by value, sessionPlans[id] being the plan with that id;  *)
(* the clock counts half seconds.                                          *)
(***************************************************************************)

\* the durationWeeks every plan of the application is generated with
DurationWeeks == 4

\* what the application specifications leave alone
exceptApp ==
    <<advVars, rirVars, genVars, recVars, setVars, activePlan, heap,
      checkedWorkout, localStorage, adjustedDays, syncVars>>

\* startStopwatch at time `time`
StartStopwatch(timer, time) ==
    IF timer.isRunning THEN timer
    ELSE [timer EXCEPT !.isRunning = TRUE, !.startTime = time - 2 * timer.elapsed]

\* stopStopwatch at time `time`: Math.floor((Date.now() - startTime) / 1000)
StopStopwatch(timer, time) ==
    IF ~timer.isRunning THEN timer
    ELSE [timer EXCEPT !.isRunning = FALSE,
                       !.elapsed = (time - timer.startTime) \div 2]

\* state.allPlans[0].id, the plans being kept in the order of their ids
FirstPlanId(all) ==
    IF DOMAIN all = {} THEN Null
    ELSE CHOOSE p \in DOMAIN all : \A q \in DOMAIN all : p <= q

\* state.allPlans.push(newPlan)
WithPlan(all, planId, plan) ==
    [p \in (DOMAIN all) \cup {planId} |-> IF p = planId THEN plan ELSE all[p]]

\* state.allPlans.filter(p => p.id !== planId)
WithoutPlan(all, planId) == [p \in (DOMAIN all) \ {planId} |-> all[p]]

\* the number of sets logged in a day workout, in a plan, in all plans
SetsOfPlan(plan) ==
    SumOf([w \in DOMAIN plan.weeks |->
              SumOf([d \in DOMAIN plan.weeks[w] |-> SetsOfDay(plan.weeks[w][d])])])

RECURSIVE SetsOfPlans(_)
SetsOfPlans(all) ==
    IF DOMAIN all = {} THEN 0
    ELSE LET p == CHOOSE q \in DOMAIN all : TRUE
         IN  SetsOfPlan(all[p]) + SetsOfPlans(WithoutPlan(all, p))

\* what one suggestion of generateProgressionSuggestions says
SuggestionKind(completedEx, nextWeekEx) ==
    LET topWeight == OrElse(TopSetWeight(completedEx.sets), 0)
        load == IF nextWeekEx.targetLoad = Null THEN 0 ELSE nextWeekEx.targetLoad
    IN  IF nextWeekEx.stallCount >= 2 THEN "stall"
        ELSE IF load > topWeight THEN "increase"
        ELSE IF nextWeekEx.targetReps > completedEx.targetReps THEN "reps"
        ELSE "maintain"

\* generateProgressionSuggestions, from the i-th completed entry on
RECURSIVE SuggestionsFrom(_, _, _)
SuggestionsFrom(i, completed, next) ==
    IF i > Len(completed) THEN <<>>
    ELSE LET j == FindExercise(next, completed[i].exerciseId)
         IN  IF j = 0 THEN SuggestionsFrom(i + 1, completed, next)
             ELSE <<[exerciseId |-> completed[i].exerciseId,
                     kind |-> SuggestionKind(completed[i], next[j])]>>
                  \o SuggestionsFrom(i + 1, completed, next)

GenerateProgressionSuggestions(completed, next) == SuggestionsFrom(1, completed, next)

\* the history entry of completeWorkout, with the stopwatch time
TimedHistoryEntry(planId, workout, seconds) ==
    LET entry == HistoryEntry(planId, workout)
    IN  [f \in (DOMAIN entry) \cup {"duration"} |->
            IF f = "duration" THEN seconds ELSE entry[f]]

\* 'Yes, Create' of the template portal: a plan is generated, pushed and made
\* the active plan, and the settings view is shown
ConfirmCreatePlan ==
    /\ ~checkinModal
    /\ currentViewName = "templatePortal"
    /\ plansCreated' = plansCreated + 1
    /\ sessionPlans' =
          WithPlan(sessionPlans, plansCreated + 1,
                   GenerateNewMesocycle(ActiveSelections, ActiveCatalog,
                                        DurationWeeks, NoDraws))
    /\ activePlanId' = plansCreated + 1
    /\ currentViewName' = "settings"
    /\ UNCHANGED <<currentView, workoutHistory, personalRecords, newPRs,
                   dailyCheckin, checkins, wasAdjusted, isWorkoutInProgress,
                   checkinModal, suggestions, workoutTimer, now, handlerError>>
    /\ UNCHANGED exceptApp

\* the showView action of the navigation; leaving the workout view stops
\* the stopwatch
Navigate(viewName) ==
    /\ ~checkinModal
    /\ workoutTimer' = IF currentViewName = "workout" /\ viewName /= "workout"
                       THEN StopStopwatch(workoutTimer, now)
                       ELSE workoutTimer
    /\ IF viewName = "workout" /\ isWorkoutInProgress
       THEN /\ currentViewName' = "workout"
            /\ UNCHANGED <<currentView, checkinModal>>
       ELSE IF viewName = "workout"
       THEN /\ currentView' = NextWorkoutOf(activePlanId, sessionPlans)
            /\ checkinModal' = WorkoutFound(activePlanId)
            /\ UNCHANGED currentViewName
       ELSE /\ currentViewName' = viewName
            /\ UNCHANGED <<currentView, checkinModal>>
    /\ UNCHANGED <<sessionPlans, activePlanId, workoutHistory, personalRecords,
                   newPRs, dailyCheckin, checkins, wasAdjusted,
                   isWorkoutInProgress, plansCreated, suggestions, now,
                   handlerError>>
    /\ UNCHANGED exceptApp

\* startPlanWorkout, the Start button of a plan in the plan list
StartWorkoutOf(planId) ==
    /\ ~checkinModal
    /\ currentViewName = "settings"
    /\ planId \in DOMAIN sessionPlans
    /\ activePlanId' = planId
    /\ currentView' = NextWorkoutOf(planId, sessionPlans)
    /\ IF WorkoutFound(planId)
       THEN IF isWorkoutInProgress
            THEN currentViewName' = "workout" /\ UNCHANGED checkinModal
            ELSE checkinModal' = TRUE /\ UNCHANGED currentViewName
       ELSE UNCHANGED <<currentViewName, checkinModal>>
    /\ UNCHANGED <<sessionPlans, workoutHistory, personalRecords, newPRs,
                   dailyCheckin, checkins, wasAdjusted, isWorkoutInProgress,
                   plansCreated, suggestions, workoutTimer, now, handlerError>>
    /\ UNCHANGED exceptApp

\* setActivePlan, the name of a plan in the plan list
ActivatePlan(planId) ==
    /\ ~checkinModal
    /\ currentViewName = "settings"
    /\ planId \in DOMAIN sessionPlans
    /\ activePlanId' = planId
    /\ UNCHANGED <<sessionPlans, currentView, workoutHistory, personalRecords,
                   newPRs, dailyCheckin, checkins, wasAdjusted,
                   isWorkoutInProgress, currentViewName, checkinModal,
                   plansCreated, suggestions, workoutTimer, now, handlerError>>
    /\ UNCHANGED exceptApp

\* deletePlan, 'Yes, Delete' on a plan of the plan list
DeletePlan(planId) ==
    /\ ~checkinModal
    /\ currentViewName = "settings"
    /\ planId \in DOMAIN sessionPlans
    /\ sessionPlans' = WithoutPlan(sessionPlans, planId)
    /\ activePlanId' = IF activePlanId = planId
                       THEN FirstPlanId(WithoutPlan(sessionPlans, planId))
                       ELSE activePlanId
    /\ UNCHANGED <<currentView, workoutHistory, personalRecords, newPRs,
                   dailyCheckin, checkins, wasAdjusted, isWorkoutInProgress,
                   currentViewName, checkinModal, plansCreated, suggestions,
                   workoutTimer, now, handlerError>>
    /\ UNCHANGED exceptApp

\* submitCheckin from the check-in modal: the workout in view is adjusted,
\* the workout is in progress, the stopwatch runs, the workout view is shown
CheckIn(sleep, stress) ==
    /\ checkinModal
    /\ dailyCheckin' = [sleep |-> sleep, stress |-> stress]
    /\ checkins' = checkins + 1
    /\ IF HasSessionWorkout
       THEN /\ sessionPlans' =
                 [sessionPlans EXCEPT
                    ![activePlanId].weeks[currentView.week][currentView.day] =
                        AdjustWorkoutForRecovery(@, sleep, stress)]
            /\ wasAdjusted' = AdjustmentMade(SessionWorkout, sleep, stress)
       ELSE /\ sessionPlans' = sessionPlans
            /\ wasAdjusted' = FALSE
    /\ checkinModal' = FALSE
    /\ isWorkoutInProgress' = TRUE
    /\ workoutTimer' = StartStopwatch(workoutTimer, now)
    /\ currentViewName' = "workout"
    /\ UNCHANGED <<activePlanId, currentView, workoutHistory, personalRecords,
                   newPRs, plansCreated, suggestions, now, handlerError>>
    /\ UNCHANGED exceptApp

\* addSet of the workout view; without a plan or a day workout at the
\* current view, activePlan.weeks[...][...].exercises throws
AddWorkoutSet(exerciseIndex) ==
    /\ ~checkinModal
    /\ currentViewName = "workout"
    /\ IF HasSessionWorkout
       THEN /\ exerciseIndex \in DOMAIN SessionWorkout.exercises
            /\ LET exercise == SessionWorkout.exercises[exerciseIndex]
                   lastWeight == IF Len(exercise.sets) > 0
                                 THEN exercise.sets[Len(exercise.sets)].weight
                                 ELSE OrElse(exercise.targetLoad, Empty)
               IN  sessionPlans' =
                     [sessionPlans EXCEPT
                        ![activePlanId].weeks[currentView.week][currentView.day]
                            .exercises[exerciseIndex].sets =
                          Append(@, [weight |-> lastWeight, reps |-> Empty,
                                     rir |-> Empty])]
            /\ UNCHANGED handlerError
       ELSE /\ handlerError' = TRUE
            /\ UNCHANGED sessionPlans
    /\ UNCHANGED <<activePlanId, currentView, workoutHistory, personalRecords,
                   newPRs, dailyCheckin, checkins, wasAdjusted,
                   isWorkoutInProgress, currentViewName, checkinModal,
                   plansCreated, suggestions, workoutTimer, now>>
    /\ UNCHANGED exceptApp

\* input on a weight field of the workout view; without a plan the handler
\* returns
EnterWeight(exerciseIndex, setIndex, value) ==
    /\ ~checkinModal
    /\ currentViewName = "workout"
    /\ HasSessionWorkout
    /\ exerciseIndex \in DOMAIN SessionWorkout.exercises
    /\ setIndex \in DOMAIN SessionWorkout.exercises[exerciseIndex].sets
    /\ sessionPlans' =
          [sessionPlans EXCEPT
             ![activePlanId].weeks[currentView.week][currentView.day]
                 .exercises[exerciseIndex].sets[setIndex].weight =
               OrElse(value, Empty)]
    /\ UNCHANGED <<activePlanId, currentView, workoutHistory, personalRecords,
                   newPRs, dailyCheckin, checkins, wasAdjusted,
                   isWorkoutInProgress, currentViewName, checkinModal,
                   plansCreated, suggestions, workoutTimer, now, handlerError>>
    /\ UNCHANGED exceptApp

\* input on a reps/RIR field of the workout view
EnterRepRir(exerciseIndex, setIndex, text) ==
    /\ ~checkinModal
    /\ currentViewName = "workout"
    /\ HasSessionWorkout
    /\ exerciseIndex \in DOMAIN SessionWorkout.exercises
    /\ setIndex \in DOMAIN SessionWorkout.exercises[exerciseIndex].sets
    /\ sessionPlans' =
          [sessionPlans EXCEPT
             ![activePlanId].weeks[currentView.week][currentView.day]
                 .exercises[exerciseIndex].sets[setIndex] =
               [@ EXCEPT !.reps = ParseReps(text), !.rir = ParseRir(text)]]
    /\ UNCHANGED <<activePlanId, currentView, workoutHistory, personalRecords,
                   newPRs, dailyCheckin, checkins, wasAdjusted,
                   isWorkoutInProgress, currentViewName, checkinModal,
                   plansCreated, suggestions, workoutTimer, now, handlerError>>
    /\ UNCHANGED exceptApp

\* mutant: progression is written to the same day two weeks on
ProgressionTargetSkipsWeek(week, day) == <<week + 2, day>>

\* activePlan.weeks[week + 1]?.[day], the day progression writes to
ProgressionTarget(week, day) == <<week + 1, day>>

\* completeWorkout, 'Yes, Complete' of the workout view: the stopwatch is
\* stopped; without the active plan the handler returns, without a day
\* workout at the current view workout.completed = true throws
FinishWorkout ==
    /\ ~checkinModal
    /\ currentViewName = "workout"
    /\ workoutTimer' = StopStopwatch(workoutTimer, now)
    /\ IF ~HasActivePlan
       THEN UNCHANGED <<sessionPlans, currentView, workoutHistory,
                        personalRecords, newPRs, isWorkoutInProgress,
                        currentViewName, suggestions, handlerError>>
       ELSE IF ~HasSessionWorkout
       THEN /\ handlerError' = TRUE
            /\ UNCHANGED <<sessionPlans, currentView, workoutHistory,
                           personalRecords, newPRs, isWorkoutInProgress,
                           currentViewName, suggestions>>
       ELSE LET week == currentView.week
                day == currentView.day
                target == ProgressionTarget(week, day)
                weeks == sessionPlans[activePlanId].weeks
                hasNext == /\ target[1] \in DOMAIN weeks
                           /\ target[2] \in DOMAIN weeks[target[1]]
                marked == [sessionPlans EXCEPT
                             ![activePlanId].weeks[week][day].completed = TRUE]
                all == IF hasNext
                       THEN [marked EXCEPT
                               ![activePlanId].weeks[target[1]][target[2]].exercises =
                                   CalculateNextWorkoutProgression(
                                       SessionWorkout.exercises, @,
                                       settings.weightIncrement)]
                       ELSE marked
                checked == CheckForPRs(SessionWorkout.exercises, personalRecords,
                                       settings.units)
            IN  /\ sessionPlans' = all
                /\ isWorkoutInProgress' = FALSE
                /\ personalRecords' = checked.records
                /\ newPRs' = checked.count
                /\ workoutHistory' =
                      <<TimedHistoryEntry(activePlanId, SessionWorkout,
                                          workoutTimer'.elapsed)>>
                      \o workoutHistory
                /\ suggestions' =
                      IF hasNext
                      THEN GenerateProgressionSuggestions(
                               SessionWorkout.exercises,
                               all[activePlanId].weeks[target[1]][target[2]].exercises)
                      ELSE <<>>
                /\ currentViewName' = "workoutSummary"
                /\ currentView' = NextWorkoutOf(activePlanId, all)
                /\ UNCHANGED handlerError
    /\ UNCHANGED <<activePlanId, dailyCheckin, checkins, wasAdjusted, checkinModal,
                   plansCreated, now>>
    /\ UNCHANGED exceptApp

\* the clock moves on by half a second; while the stopwatch runs its display
\* callback (updateStopwatchDisplay) writes the elapsed seconds
Tick ==
    /\ now' = now + 1
    /\ workoutTimer' =
          IF workoutTimer.isRunning
          THEN [workoutTimer EXCEPT !.elapsed = (now + 1 - workoutTimer.startTime) \div 2]
          ELSE workoutTimer
    /\ UNCHANGED <<sessionPlans, activePlanId, currentView, workoutHistory,
                   personalRecords, newPRs, dailyCheckin, checkins, wasAdjusted,
                   isWorkoutInProgress, currentViewName, checkinModal,
                   plansCreated, suggestions, handlerError>>
    /\ UNCHANGED exceptApp

----------------------------------------------------------------------------
(* Training through the weeks of one plan *)

MaxCycleSets == 2     \* sets logged over the plan

\* typed texts "8 r0" and "8 r3": against the targets 3, 2, 1 of the weeks
\* before the deload they are too hard, too hard, on target and on target,
\* on target, too easy
CycleTexts == {<<Num(8), LetterR, Num(0)>>, <<Num(8), LetterR, Num(3)>>}

\* the check-in of a rested user: 6 hours of sleep, stress 3
CycleCheckins == {<<6, 3>>}

InitWeeks ==
    /\ PlanIdle
    /\ MoreIdle
    /\ AdvIdle
    /\ RirIdle
    /\ GenIdle

NextWeeks ==
    \/ \E viewName \in {"templatePortal", "workout"} : Navigate(viewName)
    \/ (plansCreated = 0 /\ ConfirmCreatePlan)
    \/ \E c \in CycleCheckins : CheckIn(c[1], c[2])
    \/ (SetsOfPlans(sessionPlans) < MaxCycleSets /\ AddWorkoutSet(1))
    \/ \E k \in 1..MaxCycleSets, v \in LoggedWeights : EnterWeight(1, k, v)
    \/ \E k \in 1..MaxCycleSets, t \in CycleTexts : EnterRepRir(1, k, t)
    \/ FinishWorkout

SpecWeeks == InitWeeks /\ [][NextWeeks]_vars

\* completeWorkout has just run through: a history entry was added
WorkoutCompletes == Len(workoutHistory') = Len(workoutHistory) + 1

\* the day workouts of the active plan, before and after the step
PlanDay(w, d) == sessionPlans[activePlanId].weeks[w][d]
PlanDayAfter(w, d) == sessionPlans'[activePlanId].weeks[w][d]

\* mean RIR more than 1 below the entry's target
CompletedTooHard(ex) ==
    /\ Recorded(ex) /= {}
    /\ RirExcess(ex, ex.targetRIR) < -Cardinality(Recorded(ex))

\* entry k of the workout in view and entry i of the same day a week earlier
\* are the same exercise, and that earlier day is completed
SameExerciseLastWeek(k, i) ==
    /\ currentView.week - 1 \in DOMAIN sessionPlans[activePlanId].weeks
    /\ PlanDay(currentView.week - 1, currentView.day).completed
    /\ i \in DOMAIN PlanDay(currentView.week - 1, currentView.day).exercises
    /\ PlanDay(currentView.week - 1, currentView.day).exercises[i].exerciseId
          = SessionWorkout.exercises[k].exerciseId

\* C32: when an exercise of a day slot is completed too hard (mean RIR more
\* than 1 below target) in weeks w and w+1, then after the second completion
\* its entry in week w+2 has stallCount >= 2 and a stall suggestion is made
C32_TwoHardWeeksStall ==
    [][(WorkoutCompletes /\ HasSessionWorkout
           /\ currentView.week + 1 \in DOMAIN sessionPlans[activePlanId].weeks)
        => \A k \in DOMAIN SessionWorkout.exercises :
              \A i \in 1..Len(SessionWorkout.exercises) :
                 (/\ SameExerciseLastWeek(k, i)
                  /\ CompletedTooHard(
                        PlanDay(currentView.week - 1, currentView.day).exercises[i])
                  /\ CompletedTooHard(SessionWorkout.exercises[k]))
                 => /\ \A j \in DOMAIN PlanDayAfter(currentView.week + 1,
                                                    currentView.day).exercises :
                          LET next == PlanDayAfter(currentView.week + 1,
                                                   currentView.day).exercises[j]
                          IN  next.exerciseId = SessionWorkout.exercises[k].exerciseId
                              => next.stallCount >= 2
                    /\ \E n \in DOMAIN suggestions' :
                          /\ suggestions'[n].exerciseId
                                = SessionWorkout.exercises[k].exerciseId
                          /\ suggestions'[n].kind = "stall"]_vars

\* C33: when an exercise of a day slot is completed on target in weeks w and
\* w+1 and its targetReps of week w+1 is below 12, the targetReps written for
\* week w+2 is one more than its targetReps of week w+1
C33_RepsAccumulate ==
    [][(WorkoutCompletes /\ HasSessionWorkout
           /\ currentView.week + 1 \in DOMAIN sessionPlans[activePlanId].weeks)
        => \A k \in DOMAIN SessionWorkout.exercises :
              \A i \in 1..Len(SessionWorkout.exercises) :
                 (/\ SameExerciseLastWeek(k, i)
                  /\ LET last == PlanDay(currentView.week - 1,
                                         currentView.day).exercises[i]
                     IN  MeanOnTarget(last, last.targetRIR)
                  /\ MeanOnTarget(SessionWorkout.exercises[k],
                                  SessionWorkout.exercises[k].targetRIR)
                  /\ SessionWorkout.exercises[k].targetReps < 12)
                 => \A j \in DOMAIN PlanDayAfter(currentView.week + 1,
                                                 currentView.day).exercises :
                       LET next == PlanDayAfter(currentView.week + 1,
                                                currentView.day).exercises[j]
                       IN  next.exerciseId = SessionWorkout.exercises[k].exerciseId
                           => next.targetReps
                                 = SessionWorkout.exercises[k].targetReps + 1]_vars

----------------------------------------------------------------------------
(* A further claim on the progression runs (SpecAdvance) *)

\* C35: through generation and any sequence of progression runs, every
\* exercise entry keeps a targetReps within 8..12 and a stallCount that is a
\* non-negative integer
C35_TargetsStayInRange ==
    \A day \in {completedDay, nextDay} : \A k \in DOMAIN day :
        /\ day[k].targetReps \in 8..12
        /\ day[k].stallCount \in Nat

\* a progression run has reset an on-target exercise from 12 reps to 8
C35_Witness ==
    /\ pc = "advanced"
    /\ \E k \in DOMAIN nextDay :
          /\ k \in DOMAIN before.next
          /\ before.next[k].targetReps = 12
          /\ nextDay[k].targetReps = 8
          /\ nextDay[k].stallCount = 0

\* the day workouts of a plan that are not completed, as <<week, day>>
OpenDays(plan) ==
    {a \in (DOMAIN plan.weeks) \X (1..3) :
        /\ a[2] \in DOMAIN plan.weeks[a[1]]
        /\ ~plan.weeks[a[1]][a[2]].completed}

\* `view` is a day that is not completed, and none before it is
IsEarliestOpen(plan, view) ==
    /\ <<view.week, view.day>> \in OpenDays(plan)
    /\ \A b \in OpenDays(plan) :
          ~(b[1] < view.week \/ (b[1] = view.week /\ b[2] < view.day))

\* findAndSetNextWorkout has returned true: the check-in modal opens
ModalOpens == checkinModal' /\ ~checkinModal

\* C39: findAndSetNextWorkout returns true only for a plan with a day that is
\* not completed, and then currentView is the first such day in (week, day)
\* order; after each completion currentView is the earliest day of the
\* active plan that is not completed, and it is left as it was when every
\* day is completed
C39_NextWorkoutIsEarliestOpen ==
    /\ [][ModalOpens =>
             /\ activePlanId' \in DOMAIN sessionPlans'
             /\ IsEarliestOpen(sessionPlans'[activePlanId'], currentView')]_vars
    /\ [][WorkoutCompletes =>
             IF OpenDays(sessionPlans'[activePlanId']) /= {}
             THEN IsEarliestOpen(sessionPlans'[activePlanId'], currentView')
             ELSE currentView' = currentView]_vars

\* every day of the plan has been completed, the last of them the third day
\* of the deload week, where the view has stayed
C39_Witness ==
    /\ activePlanId \in DOMAIN sessionPlans
    /\ OpenDays(sessionPlans[activePlanId]) = {}
    /\ Len(workoutHistory) = 3 * DurationWeeks
    /\ currentView = [week |-> DurationWeeks, day |-> 3]

----------------------------------------------------------------------------
(* Keeping several plans: the user sets the plan list up (creates, starts, *)
(* activates and deletes plans), also with a workout in progress, until    *)
(* the first workout is completed, and then trains the active plan through *)

MaxCyclePlans == 2    \* plans created
MaxCycleLogged == 1   \* sets logged over all plans

InitCycle ==
    /\ PlanIdle
    /\ MoreIdle
    /\ AdvIdle
    /\ RirIdle
    /\ GenIdle

\* no workout has been completed yet
SettingUp == workoutHistory = <<>>

NextCycle ==
    \/ \E viewName \in {"templatePortal", "workout", "settings"} : Navigate(viewName)
    \/ (SettingUp /\ plansCreated < MaxCyclePlans /\ ConfirmCreatePlan)
    \/ (SettingUp /\ \E planId \in 1..MaxCyclePlans : StartWorkoutOf(planId))
    \/ (SettingUp /\ \E planId \in 1..MaxCyclePlans : ActivatePlan(planId))
    \/ (SettingUp /\ \E planId \in 1..MaxCyclePlans : DeletePlan(planId))
    \/ \E c \in CycleCheckins : CheckIn(c[1], c[2])
    \/ (SetsOfPlans(sessionPlans) < MaxCycleLogged /\ AddWorkoutSet(1))
    \/ \E v \in LoggedWeights : EnterWeight(1, 1, v)
    \/ \E t \in LoggedTexts : EnterRepRir(1, 1, t)
    \/ FinishWorkout

SpecCycle == InitCycle /\ [][NextCycle]_vars

\* the days of a plan as (week, day) pairs
DaysOf(plan) ==
    UNION {{<<w, d>> : d \in DOMAIN plan.weeks[w]} : w \in DOMAIN plan.weeks}

\* C31: completing the workout at (week w, day d) of the active plan marks
\* that day completed and leaves its targets alone, changes the exercises of
\* (week w + 1, day d) of the same plan and nothing else of that day, and
\* leaves every other day of the plan and every other plan as they were;
\* when week w is the plan's final week no day's targets change and the
\* summary's suggestions are empty
C31_CompletionProgressesOneDay ==
    [][WorkoutCompletes =>
          LET w == currentView.week
              d == currentView.day
              plan == sessionPlans[activePlanId]
          IN  /\ activePlanId' = activePlanId
              /\ DOMAIN sessionPlans' = DOMAIN sessionPlans
              /\ \A q \in DOMAIN sessionPlans \ {activePlanId} :
                    sessionPlans'[q] = sessionPlans[q]
              /\ DaysOf(sessionPlans'[activePlanId]) = DaysOf(plan)
              /\ \A a \in DaysOf(plan) \ {<<w, d>>, <<w + 1, d>>} :
                    PlanDayAfter(a[1], a[2]) = PlanDay(a[1], a[2])
              /\ PlanDayAfter(w, d) = [PlanDay(w, d) EXCEPT !.completed = TRUE]
              /\ <<w + 1, d>> \in DaysOf(plan) =>
                    [PlanDayAfter(w + 1, d) EXCEPT !.exercises = <<>>] =
                    [PlanDay(w + 1, d) EXCEPT !.exercises = <<>>]
              /\ w = Len(plan.weeks) => suggestions' = <<>>]_vars

\* two plans are kept; every day of the active plan is completed, its final
\* week last with an empty list of suggestions, and progression has written a
\* load into its second week; the other plan is as it was generated
C31_Witness ==
    /\ Cardinality(DOMAIN sessionPlans) = 2
    /\ HasActivePlan
    /\ OpenDays(sessionPlans[activePlanId]) = {}
    /\ suggestions = <<>>
    /\ Truthy(sessionPlans[activePlanId].weeks[2][1].exercises[1].targetLoad)
    /\ \A q \in DOMAIN sessionPlans \ {activePlanId} :
          /\ OpenDays(sessionPlans[q]) = DaysOf(sessionPlans[q])
          /\ ~Truthy(sessionPlans[q].weeks[2][1].exercises[1].targetLoad)

\* C38: while a workout is in progress the active plan is one of the plans
\* and has a day workout at the current view, and no workout handler has run
\* without them
C38_WorkoutHasItsPlan ==
    /\ isWorkoutInProgress => HasSessionWorkout
    /\ ~handlerError

----------------------------------------------------------------------------
(* The stopwatch over the workouts of one plan, against a clock in half    *)
(* seconds                                                                 *)

MaxClock == 6        \* half seconds the clock runs
MaxTimedRuns == 2    \* workouts completed

InitTimer ==
    /\ PlanIdle
    /\ MoreIdle
    /\ AdvIdle
    /\ RirIdle
    /\ GenIdle

NextTimer ==
    \/ \E viewName \in {"templatePortal", "workout", "home"} : Navigate(viewName)
    \/ (plansCreated = 0 /\ ConfirmCreatePlan)
    \/ \E c \in CycleCheckins : CheckIn(c[1], c[2])
    \/ (now < MaxClock /\ Tick)
    \/ (Len(workoutHistory) < MaxTimedRuns /\ FinishWorkout)

SpecTimer == InitTimer /\ [][NextTimer]_vars

\* the seconds stored in the entries of the history, added up
RECURSIVE TotalDuration(_)
TotalDuration(history) ==
    IF history = <<>> THEN 0
    ELSE Head(history).duration + TotalDuration(Tail(history))

\* C40: each history entry stores the seconds of its own workout only, so
\* that the stored durations together never exceed the seconds the clock has
\* run
C40_DurationOfOwnSession == TotalDuration(workoutHistory) <= now \div 2

----------------------------------------------------------------------------
(* Start-up: initializeDataService brings the local item and the data of   *)
(* the spreadsheet together. The plans of state.allPlans are held in       *)
(* sessionPlans. Time stamps are ISO strings, written as their second.     *)

MaxStamp == 3    \* the latest time stamp

\* new Date(stamp), in milliseconds
TimeOf(stamp) == stamp * 1000

\* createDefaultUserData()
DefaultUserData ==
    [userSelections |-> [trainingAge |-> "beginner", daysPerWeek |-> 4,
                         style |-> "gym"],
     settings |-> DefaultSettings,
     allPlans |-> <<>>,
     activePlanId |-> Null,
     workoutHistory |-> <<>>,
     personalRecords |-> <<>>,
     currentView |-> [week |-> 1, day |-> 1],
     isWorkoutInProgress |-> FALSE,
     lastSyncTime |-> Null,
     spreadsheetId |-> Null]

\* the item of a user who has created plan 1 and begun its first workout
LocalItem(stamp, sheet) ==
    [userSelections |-> ActiveSelections,
     settings |-> DefaultSettings,
     allPlans |-> WithPlan(<<>>, 1,
                           GenerateNewMesocycle(ActiveSelections, ActiveCatalog,
                                                DurationWeeks, NoDraws)),
     activePlanId |-> 1,
     workoutHistory |-> <<>>,
     personalRecords |-> <<>>,
     currentView |-> [week |-> 1, day |-> 1],
     isWorkoutInProgress |-> TRUE,
     lastSyncTime |-> stamp,
     spreadsheetId |-> sheet]

LocalItems ==
    {NoItem} \cup {LocalItem(stamp, sheet) :
                      stamp \in {Null} \cup (1..MaxStamp), sheet \in {Null, 1}}

\* what loadData answers for a spreadsheet saved on another device, where
\* plan 2 is kept and its second day comes next
SheetsData(stamp) ==
    [UserSelections |-> [trainingAge |-> "beginner", daysPerWeek |-> 4,
                         style |-> "gym"],
     Settings |-> [DefaultSettings EXCEPT !.units = "kg"],
     AllPlans |-> WithPlan(<<>>, 2,
                           GenerateNewMesocycle(ActiveSelections, ActiveCatalog,
                                                DurationWeeks, NoDraws)),
     ActivePlanId |-> 2,
     WorkoutHistory |-> <<>>,
     PersonalRecords |-> <<>>,
     CurrentView |-> [week |-> 1, day |-> 2],
     IsWorkoutInProgress |-> FALSE,
     Timestamp |-> stamp,
     SpreadsheetId |-> 1]

\* the same answer without its Timestamp
Unstamped(data) == [f \in (DOMAIN data) \ {"Timestamp"} |-> data[f]]

\* the answers to loadData: the request fails, the answer reports an error,
\* is an empty object, or is the data with or without a Timestamp
LoadResults ==
    {[fails |-> TRUE, result |-> <<>>],
     [fails |-> FALSE, result |-> [error |-> 1]],
     [fails |-> FALSE, result |-> <<>>],
     [fails |-> FALSE, result |-> Unstamped(SheetsData(1))]}
    \cup {[fails |-> FALSE, result |-> SheetsData(stamp)] : stamp \in 1..MaxStamp}

\* connects: testConnection succeeds; online: navigator.onLine; loaded: the
\* answer to loadData; userConnects: the user presses 'Connect'; created: the
\* spreadsheetId of createSpreadsheet, Null when it fails; saved: the
\* timestamp of saveData, Null when it fails
Servers ==
    [connects : BOOLEAN, online : BOOLEAN, loaded : LoadResults,
     userConnects : BOOLEAN, created : {Null, 1}, saved : {Null, MaxStamp}]

\* data[key], undefined being null
Member(data, key) == IF key \in DOMAIN data THEN data[key] ELSE Null

\* data[key] || fallback for an array or object
MemberOr(data, key, fallback) ==
    IF key \in DOMAIN data THEN data[key] ELSE fallback

\* what applyDataToState(data) writes: the keys of the Apps Script format
\* are read when data.UserSelections is there, those of the local format
\* otherwise
ApplyDataToState(data) ==
    LET sheets == "UserSelections" \in DOMAIN data
        Key(localKey, sheetsKey) == IF sheets THEN sheetsKey ELSE localKey
        plans == MemberOr(data, Key("allPlans", "AllPlans"), <<>>)
    IN  [userSelections |->
            Spread(userSelections,
                   MemberOr(data, Key("userSelections", "UserSelections"), <<>>)),
         settings |->
            Spread(settings, MemberOr(data, Key("settings", "Settings"), <<>>)),
         allPlans |-> plans,
         activePlanId |->
            OrElse(Member(data, Key("activePlanId", "ActivePlanId")),
                   FirstPlanId(plans)),
         workoutHistory |->
            MemberOr(data, Key("workoutHistory", "WorkoutHistory"), <<>>),
         personalRecords |->
            MemberOr(data, Key("personalRecords", "PersonalRecords"), <<>>),
         currentView |->
            MemberOr(data, Key("currentView", "CurrentView"), currentView),
         isWorkoutInProgress |->
            MemberOr(data, Key("isWorkoutInProgress", "IsWorkoutInProgress"), FALSE),
         lastSyncTime |->
            OrElse(Member(data, Key("lastSyncTime", "Timestamp")), Null),
         spreadsheetId |->
            OrElse(Member(data, Key("spreadsheetId", "SpreadsheetId")), Null)]

\* the variables applyDataToState writes
appliedVars ==
    <<userSelections, settings, sessionPlans, activePlanId, workoutHistory,
      personalRecords, currentView, isWorkoutInProgress, lastSyncTime,
      spreadsheetId>>

\* the state is set to `data`, a record as ApplyDataToState returns it
SetState(data) ==
    /\ userSelections' = data.userSelections
    /\ settings' = data.settings
    /\ sessionPlans' = data.allPlans
    /\ activePlanId' = data.activePlanId
    /\ workoutHistory' = data.workoutHistory
    /\ personalRecords' = data.personalRecords
    /\ currentView' = data.currentView
    /\ isWorkoutInProgress' = data.isWorkoutInProgress
    /\ lastSyncTime' = data.lastSyncTime
    /\ spreadsheetId' = data.spreadsheetId

exceptSync ==
    <<advVars, rirVars, recVars, appVars, checkedWorkout, localStorage,
      allExercises, planWeeks, mesocycle, restRemaining, storedSettings, saves,
      lastCall, activePlan, heap, dailyCheckin, checkins, wasAdjusted, newPRs,
      currentViewName, checkinModal, adjustedDays>>

\* mutant: data of the same time as the local item is taken as newer
SheetsDataIsNewerOrSame(localTime, sheetsTime) ==
    ~Truthy(localTime) \/ TimeOf(sheetsTime) >= TimeOf(localTime)

\* !localTime || new Date(sheetsTime) > new Date(localTime)
SheetsDataIsNewer(localTime, sheetsTime) ==
    ~Truthy(localTime) \/ TimeOf(sheetsTime) > TimeOf(localTime)

\* loadDataFromSheets(): null (NoItem) without spreadsheetId, offline, on a
\* failed request, on an answer with an error and on an empty answer
LoadDataFromSheets ==
    IF ~Truthy(spreadsheetId) \/ ~server.online THEN NoItem
    ELSE IF server.loaded.fails THEN NoItem
    ELSE IF "error" \in DOMAIN server.loaded.result THEN NoItem
    ELSE IF DOMAIN server.loaded.result = {} THEN NoItem
    ELSE server.loaded.result

\* initializeDataService up to its first await: the local item is loaded and
\* applied
LoadLocalData ==
    /\ syncStep = "idle"
    /\ syncStep' = "local"
    /\ localData' = localItem
    /\ IF localItem /= NoItem
       THEN SetState(ApplyDataToState(localItem))
       ELSE UNCHANGED appliedVars
    /\ UNCHANGED <<localItem, server, isDataLoaded>>
    /\ UNCHANGED exceptSync

\* testConnection() has answered: without a connection the service runs
\* offline, on the defaults when there is no local item
ConnectionTested ==
    /\ syncStep = "local"
    /\ IF server.connects
       THEN /\ syncStep' = "connected"
            /\ UNCHANGED <<appliedVars, isDataLoaded>>
       ELSE /\ syncStep' = "done"
            /\ isDataLoaded' = TRUE
            /\ IF localData = NoItem
               THEN SetState(ApplyDataToState(DefaultUserData))
               ELSE UNCHANGED appliedVars
    /\ UNCHANGED <<localItem, server, localData>>
    /\ UNCHANGED exceptSync

\* the rest of initializeDataService. A new user gets the defaults and, on
\* 'Connect', a spreadsheet: createUserSpreadsheet saves the item with the
\* new id, syncData saves it again and saveDataToSheets sets lastSyncTime.
\* An existing user gets the data of the spreadsheet when it has a Timestamp
\* and is newer, and the item is saved
Reconcile ==
    /\ syncStep = "connected"
    /\ syncStep' = "done"
    /\ isDataLoaded' = TRUE
    /\ IF ~Truthy(spreadsheetId)
       THEN LET defaults == ApplyDataToState(DefaultUserData)
                created == server.userConnects /\ Truthy(server.created)
                withSheet == [defaults EXCEPT !.spreadsheetId = server.created]
                saved == created /\ server.online /\ Truthy(server.saved)
            IN  /\ SetState(IF saved
                            THEN [withSheet EXCEPT !.lastSyncTime = server.saved]
                            ELSE IF created THEN withSheet ELSE defaults)
                /\ localItem' = IF created THEN withSheet ELSE localItem
       ELSE LET sheetsData == LoadDataFromSheets
            IN  IF /\ sheetsData /= NoItem
                   /\ Truthy(Member(sheetsData, "Timestamp"))
                   /\ SheetsDataIsNewer(Member(localData, "lastSyncTime"),
                                        sheetsData.Timestamp)
                THEN /\ SetState(ApplyDataToState(sheetsData))
                     /\ localItem' = ApplyDataToState(sheetsData)
                ELSE UNCHANGED <<appliedVars, localItem>>
    /\ UNCHANGED <<server, localData>>
    /\ UNCHANGED exceptSync

InitSync ==
    /\ PlanIdle
    /\ RecIdle
    /\ SetIdle
    /\ SessIdle
    /\ AppIdle
    /\ checkedWorkout = <<>>
    /\ localStorage = NoItem
    /\ AdvIdle
    /\ RirIdle
    /\ GenIdle
    /\ localData = NoItem
    /\ spreadsheetId = Null
    /\ lastSyncTime = Null
    /\ isDataLoaded = FALSE
    /\ syncStep = "idle"
    /\ localItem \in LocalItems
    /\ server \in Servers

NextSync ==
    \/ LoadLocalData
    \/ ConnectionTested
    \/ Reconcile

SpecSync == InitSync /\ [][NextSync]_vars

\* the user has a stored spreadsheetId and the connection works
StoredUser ==
    /\ Truthy(Member(localData, "spreadsheetId"))
    /\ server.connects

\* the data of the spreadsheet has arrived with a Timestamp, and the local
\* item has no lastSyncTime or an earlier one
RemoteWins ==
    /\ server.online
    /\ ~server.loaded.fails
    /\ "Timestamp" \in DOMAIN server.loaded.result
    /\ \/ ~Truthy(localData.lastSyncTime)
       \/ server.loaded.result.Timestamp > localData.lastSyncTime

\* the state holds the data of the spreadsheet
StateIsRemote ==
    LET remote == server.loaded.result
    IN  /\ sessionPlans = remote.AllPlans
        /\ activePlanId = remote.ActivePlanId
        /\ currentView = remote.CurrentView
        /\ workoutHistory = remote.WorkoutHistory
        /\ personalRecords = remote.PersonalRecords
        /\ isWorkoutInProgress = remote.IsWorkoutInProgress
        /\ settings = remote.Settings
        /\ lastSyncTime = remote.Timestamp

\* the state holds the local item, and the item is as it was
StateIsLocal ==
    /\ sessionPlans = localData.allPlans
    /\ activePlanId = localData.activePlanId
    /\ currentView = localData.currentView
    /\ workoutHistory = localData.workoutHistory
    /\ personalRecords = localData.personalRecords
    /\ isWorkoutInProgress = localData.isWorkoutInProgress
    /\ settings = localData.settings
    /\ lastSyncTime = localData.lastSyncTime
    /\ spreadsheetId = localData.spreadsheetId
    /\ localItem = localData

\* C34: after start-up isDataLoaded is true; for a user with a stored
\* spreadsheetId and a working connection the state holds the data of the
\* spreadsheet when that data has a Timestamp and the local item has no
\* lastSyncTime or an earlier one, and otherwise (same or earlier Timestamp,
\* no Timestamp, failed load) the state and the item are the local ones
C34_NewerSheetsDataReplacesLocal ==
    syncStep = "done" =>
        /\ isDataLoaded
        /\ StoredUser => IF RemoteWins THEN StateIsRemote ELSE StateIsLocal

\* start-up has ended for a user whose item was synced at time 1 and whose
\* spreadsheet was saved later: the state holds plan 2 of the spreadsheet
C34_Witness ==
    /\ syncStep = "done"
    /\ StoredUser
    /\ Truthy(localData.lastSyncTime)
    /\ RemoteWins
    /\ DOMAIN sessionPlans = {2}

====
